---- MODULE Spec2Model ----
(***************************************************************************)
(* Model of the mx5nb-minidash telemetry path: the Invent EMS serial       *)
(* decoder (protocol/invent_ems.c), the bus-frame decoder, the two         *)
(* interrupt-fed ring buffers (pico_dashboard.cpp, bsp_can.c) and the      *)
(* protocol emulator's frame builder (CarEmu.c).                           *)
(*                                                                         *)
(* Numbers: bytes are 0..255; C floats are modelled as exact rationals     *)
(* <<numerator, denominator>> with denominator > 0, and NaN as <<0, 0>>.   *)
(***************************************************************************)
EXTENDS Integers, Sequences, FiniteSets, TLC

\* ---------------------------------------------------------------- constants
HEADER_0 == 85
HEADER_1 == 0
HEADER_2 == 170
HEADER_3 == 0
INVENT_EMS_PROTOCOL_VER == 84
MAX_RX_BUF == 64
MAX_PACKET_LEN == 48
MIN_PACKET_LEN == 4
SLOW_PACKET_OFFSET == 25
SLOW_PACKET_SIZE == 11
SLOW_PACKET_COUNT == 10
TOTAL_SLOW_PACKETS == 10
UART_RX_BUF_SIZE == 256
UART_FIFO_DEPTH == 32
CAN_RX_BUF_SIZE == 32
SIZEOF_TInfoPacket == 36

Byte == 0..255

\* ---------------------------------------------------------------- integers
\* bit k of a ^ b, k a power of two
XorBit(a, b, k) == (((a \div k) + (b \div k)) % 2) * k

\* a ^ b for a, b in 0..65535
Xor(a, b) ==
    XorBit(a, b, 1) + XorBit(a, b, 2) + XorBit(a, b, 4) + XorBit(a, b, 8)
    + XorBit(a, b, 16) + XorBit(a, b, 32) + XorBit(a, b, 64)
    + XorBit(a, b, 128) + XorBit(a, b, 256) + XorBit(a, b, 512)
    + XorBit(a, b, 1024) + XorBit(a, b, 2048) + XorBit(a, b, 4096)
    + XorBit(a, b, 8192) + XorBit(a, b, 16384) + XorBit(a, b, 32768)

\* (int8_t)b for a byte b
I8(b) == IF b >= 128 THEN b - 256 ELSE b

\* the two bytes taken high byte first
read_u16_be(p, i) == (256 * p[i]) + p[i + 1]

\* p[0] | p[1] << 8, the buffer p read at offset i
read_u16(p, i) == p[i] + (256 * p[i + 1])

\* the 16 bits taken as unsigned
read_i16_unsigned(p, i) == read_u16(p, i)

\* (int16_t)(p[0] | p[1] << 8)
read_i16(p, i) ==
    LET u == read_u16(p, i) IN IF u >= 32768 THEN u - 65536 ELSE u

\* floats as exact rationals
NaN == <<0, 0>>
F(n, d) == <<n, d>>
IsNaN(x) == x[2] = 0
FEq(x, y) == x[2] # 0 /\ y[2] # 0 /\ x[1] * y[2] = y[1] * x[2]

\* ---------------------------------------------------------------- checksum
\* one round of the checksum loop body
crc_step(crc, byte) ==
    LET d1 == Xor(byte, crc % 256)
        d  == Xor(d1, (d1 * 16) % 256)
        t0 == (d * 256) + ((crc \div 256) % 256)
        t1 == Xor(t0, d \div 16)
    IN  Xor(t1, d * 8) % 65536

RECURSIVE crc_loop(_, _, _, _)
crc_loop(buf, i, len, crc) ==
    IF i > len THEN crc
    ELSE LET t == crc_step(crc, buf[i])
         IN  IF t >= 0 THEN crc_loop(buf, i + 1, len, t) ELSE t

\* the receiver's sum without the byte at index buf[0] - 2
checksum_short(buf) ==
    LET len == (buf[0] - 3) % 256
    IN  IF len >= MAX_RX_BUF - 2 THEN 0 ELSE crc_loop(buf, 0, len, 65535)

\* receiver: static uint16_t checksum(const uint8_t *buf)
checksum(buf) ==
    LET len == (buf[0] - 2) % 256
    IN  IF len >= MAX_RX_BUF - 2 THEN 0 ELSE crc_loop(buf, 0, len, 65535)

\* the emulator's sum started at 0
calcChecksum_from0(buffer) ==
    LET len == (buffer[0] - 2) % 256
    IN  crc_loop(buffer, 0, len, 0)

\* emulator: static uint16_t calcChecksum(const uint8_t* buffer); no guard.
\* Defined for buffers that hold indices 0..buffer[0]-2.
calcChecksum(buffer) ==
    LET len == (buffer[0] - 2) % 256
    IN  crc_loop(buffer, 0, len, 65535)

\* ---------------------------------------------------------------- telemetry record
\* the record after memset 0 alone
InitData_memset_only ==
    [ connected |-> FALSE, packet_count |-> 0, error_count |-> 0,
      rpm |-> F(0, 1), ign_angle |-> F(0, 1), inj_time_ms |-> F(0, 1), tps |-> F(0, 1),
      dbw_pos |-> F(0, 1), map_kpa |-> F(0, 1), lambda |-> F(0, 1), speed |-> F(0, 1),
      fuel_flow |-> F(0, 1), knock_v |-> F(0, 1),
      transient_corr |-> 0, runlevel |-> 0, cyl_no |-> 0,
      corr_angle |-> 0, lambda_target |-> F(0, 1), lambda_corr_fast |-> 0,
      lambda_corr_slow |-> 0, fuel_pressure_kpa |-> F(0, 1), dwell_ms |-> F(0, 1),
      voltage |-> F(0, 1), gear |-> 0, dbw_cmd |-> F(0, 1), lambda2 |-> F(0, 1),
      flag_major |-> 0, flag_minor |-> 0, flag_notify |-> 0,
      flag_notify2 |-> 0, flag_protection |-> 0, idle_pos |-> F(0, 1),
      airflow |-> 0, boost_duty |-> 0, boost_target |-> 0,
      egr_pos |-> 0, egr_target |-> 0, inj_duty |-> 0, inj_lag_time |-> 0,
      inj_end_angle |-> 0, fuel_press_coef |-> 0, air_charge_t |-> 0,
      inj_air_charge_corr |-> 0, speed2 |-> 0, back_pressure_kpa |-> F(0, 1),
      ign_accel_corr |-> 0, vvt1_curr |-> 0, vvt1_target |-> 0,
      vvt2_curr |-> 0, vvt2_target |-> 0, vvt1b_curr |-> 0,
      vvt2b_curr |-> 0, tcs_corr |-> 0, pwm3d_target |-> F(0, 1),
      pwm3d_curr |-> F(0, 1),
      trip_fuel_l |-> F(0, 1), trip_path_km |-> F(0, 1), curr_fuel_cons |-> F(0, 1),
      trip_fuel_cons |-> F(0, 1), fuel_composition |-> F(0, 1),
      adc_tps |-> 0, adc_ct |-> 0, adc_iat |-> 0, adc_dbw1 |-> 0,
      adc_dbw2 |-> 0, adc_map |-> 0, adc_lambda |-> 0,
      adc_an |-> [i \in 0..9 |-> 0],
      input_state |-> 0, output_state |-> 0, dbw_driver_status |-> 0,
      dbw_system_status |-> 0, gas_state |-> 0, at_temp |-> 0,
      at_state |-> 0, fuel_level |-> 0,
      clt |-> F(0, 1), iat |-> F(0, 1), oil_temp |-> F(0, 1), fuel_temp |-> F(0, 1),
      egt1 |-> F(0, 1), egt2 |-> F(0, 1), oil_pressure |-> F(0, 1),
      pwm_duty |-> [i \in 0..5 |-> F(0, 1)] ]
\* the record after memset 0 and the NaN assignments of invent_ems_init
InitData ==
    [ connected |-> FALSE, packet_count |-> 0, error_count |-> 0,
      rpm |-> NaN, ign_angle |-> NaN, inj_time_ms |-> NaN, tps |-> NaN,
      dbw_pos |-> NaN, map_kpa |-> NaN, lambda |-> NaN, speed |-> NaN,
      fuel_flow |-> NaN, knock_v |-> NaN,
      transient_corr |-> 0, runlevel |-> 0, cyl_no |-> 0,
      corr_angle |-> 0, lambda_target |-> NaN, lambda_corr_fast |-> 0,
      lambda_corr_slow |-> 0, fuel_pressure_kpa |-> NaN, dwell_ms |-> NaN,
      voltage |-> NaN, gear |-> 0, dbw_cmd |-> NaN, lambda2 |-> NaN,
      flag_major |-> 0, flag_minor |-> 0, flag_notify |-> 0,
      flag_notify2 |-> 0, flag_protection |-> 0, idle_pos |-> NaN,
      airflow |-> 0, boost_duty |-> 0, boost_target |-> 0,
      egr_pos |-> 0, egr_target |-> 0, inj_duty |-> 0, inj_lag_time |-> 0,
      inj_end_angle |-> 0, fuel_press_coef |-> 0, air_charge_t |-> 0,
      inj_air_charge_corr |-> 0, speed2 |-> 0, back_pressure_kpa |-> NaN,
      ign_accel_corr |-> 0, vvt1_curr |-> 0, vvt1_target |-> 0,
      vvt2_curr |-> 0, vvt2_target |-> 0, vvt1b_curr |-> 0,
      vvt2b_curr |-> 0, tcs_corr |-> 0, pwm3d_target |-> NaN,
      pwm3d_curr |-> NaN,
      trip_fuel_l |-> NaN, trip_path_km |-> NaN, curr_fuel_cons |-> NaN,
      trip_fuel_cons |-> NaN, fuel_composition |-> NaN,
      adc_tps |-> 0, adc_ct |-> 0, adc_iat |-> 0, adc_dbw1 |-> 0,
      adc_dbw2 |-> 0, adc_map |-> 0, adc_lambda |-> 0,
      adc_an |-> [i \in 0..9 |-> 0],
      input_state |-> 0, output_state |-> 0, dbw_driver_status |-> 0,
      dbw_system_status |-> 0, gas_state |-> 0, at_temp |-> 0,
      at_state |-> 0, fuel_level |-> 0,
      clt |-> NaN, iat |-> NaN, oil_temp |-> NaN, fuel_temp |-> NaN,
      egt1 |-> NaN, egt2 |-> NaN, oil_pressure |-> NaN,
      pwm_duty |-> [i \in 0..5 |-> NaN] ]

\* the fast channels, with two members of Slow0 reset on the way
parse_fast_clears_slow(e, buf) ==
    LET period == read_u16(buf, 6) IN
    [e EXCEPT
      !.runlevel = buf[2],
      !.voltage = NaN,
      !.gear = 0,
      !.ign_angle = F(read_i16(buf, 3), 4),
      !.fuel_flow = F(buf[5], 16),
      !.rpm = IF period > 0 THEN F(10000000, period) ELSE F(0, 1),
      !.inj_time_ms = F(read_u16(buf, 8) * 4, 1000),
      !.knock_v = F(buf[10] * 5, 256),
      !.tps = F(buf[11] * 100, 255),
      !.dbw_pos = F(buf[12] * 100, 255),
      !.map_kpa = F(buf[13] * 2, 1),
      !.lambda = F(buf[14], 128),
      !.cyl_no = buf[15],
      !.transient_corr = I8(buf[16]),
      !.speed = F(buf[17], 1)]

\* static void parse_fast(const uint8_t *buf), as a function of the record
parse_fast(e, buf) ==
    LET period == read_u16(buf, 6) IN
    [e EXCEPT
      !.runlevel = buf[2],
      !.ign_angle = F(read_i16(buf, 3), 4),
      !.fuel_flow = F(buf[5], 16),
      !.rpm = IF period > 0 THEN F(10000000, period) ELSE F(0, 1),
      !.inj_time_ms = F(read_u16(buf, 8) * 4, 1000),
      !.knock_v = F(buf[10] * 5, 256),
      !.tps = F(buf[11] * 100, 255),
      !.dbw_pos = F(buf[12] * 100, 255),
      !.map_kpa = F(buf[13] * 2, 1),
      !.lambda = F(buf[14], 128),
      !.cyl_no = buf[15],
      !.transient_corr = I8(buf[16]),
      !.speed = F(buf[17], 1)]

\* static void parse_slow(uint8_t id, const uint8_t *s); s is indexed 0..10
parse_slow(e, id, s) ==
    CASE id = 0 ->
        [e EXCEPT
          !.corr_angle = I8(s[0]),
          !.lambda_target = F(s[1], 128),
          !.lambda_corr_fast = I8(s[2]),
          !.lambda_corr_slow = I8(s[3]),
          !.fuel_pressure_kpa = F(read_u16(s, 4), 1),
          !.dwell_ms = F(s[6], 1),
          !.voltage = F(s[7], 10),
          !.gear = I8(s[8]),
          !.dbw_cmd = F(s[9], 1),
          !.lambda2 = F(s[10], 128)]
      [] id = 1 ->
        [e EXCEPT
          !.flag_major = s[0],
          !.flag_minor = s[1],
          !.flag_notify = s[2],
          !.flag_notify2 = s[3],
          !.flag_protection = s[4],
          !.idle_pos = F(s[5] * 100, 256),
          !.airflow = read_u16(s, 6),
          !.boost_duty = s[8],
          !.boost_target = s[9]]
      [] id = 2 ->
        [e EXCEPT
          !.egr_pos = s[0],
          !.egr_target = s[1],
          !.inj_duty = s[2],
          !.inj_lag_time = read_i16(s, 3),
          !.inj_end_angle = I8(s[5]),
          !.fuel_press_coef = s[6],
          !.air_charge_t = I8(s[7]),
          !.inj_air_charge_corr = I8(s[8]),
          !.speed2 = s[9],
          !.back_pressure_kpa = F(s[10] * 2, 1)]
      [] id = 3 ->
        [e EXCEPT
          !.ign_accel_corr = read_i16(s, 0),
          !.vvt1_curr = I8(s[2]),
          !.vvt1_target = I8(s[3]),
          !.vvt2_curr = I8(s[4]),
          !.vvt2_target = I8(s[5]),
          !.vvt1b_curr = I8(s[6]),
          !.vvt2b_curr = I8(s[7]),
          !.tcs_corr = s[8],
          !.pwm3d_target = F(s[9] * 100, 256),
          !.pwm3d_curr = F(s[10] * 100, 256)]
      [] id = 4 ->
        [e EXCEPT
          !.trip_fuel_l = F(read_u16(s, 0), 100),
          !.trip_path_km = F(read_u16(s, 2), 10),
          !.curr_fuel_cons = F(read_u16(s, 4), 10),
          !.trip_fuel_cons = F(read_u16(s, 6), 10),
          !.fuel_composition = F(s[8] * 100, 256)]
      [] id = 5 ->
        [e EXCEPT
          !.adc_tps = s[0],
          !.adc_ct = s[1],
          !.adc_iat = s[2],
          !.adc_dbw1 = s[3],
          !.adc_dbw2 = s[4],
          !.adc_map = s[5],
          !.adc_lambda = s[6]]
      [] id = 6 ->
        [e EXCEPT !.adc_an = [i \in 0..9 |-> s[i]]]
      [] id = 7 ->
        [e EXCEPT
          !.input_state = s[0],
          !.output_state = read_u16(s, 1),
          !.dbw_driver_status = s[3],
          !.dbw_system_status = s[4],
          !.gas_state = s[5],
          !.at_temp = I8(s[6]),
          !.at_state = s[7],
          !.fuel_level = s[8]]
      [] id = 8 ->
        [e EXCEPT
          !.clt = F(I8(s[0]), 1),
          !.iat = F(I8(s[1]), 1),
          !.oil_temp = F(s[2], 1),
          !.fuel_temp = F(I8(s[3]), 1),
          !.egt1 = F(read_u16(s, 5), 1),
          !.egt2 = F(read_u16(s, 7), 1),
          !.oil_pressure = F(s[9], 10)]
      [] id = 9 ->
        [e EXCEPT !.pwm_duty = [i \in 0..5 |-> F(s[i] * 100, 256)]]
      [] OTHER -> e

\* packet_count and error_count are uint32_t; the counts reached here stay far
\* below 2^32, so the increments are written without the wrap.
\* the decoder's static state as one value:
\*   [rxstate, rxbuf, rxptr, ecu_data, new_data_flag]
\* static void parse_packet(void)
parse_packet_nocount(st) ==
    LET e1 == parse_fast(st.ecu_data, st.rxbuf)
        slow_id == st.rxbuf[24]
        e2 == IF slow_id < SLOW_PACKET_COUNT
              THEN parse_slow(e1, slow_id,
                              [i \in 0..(SLOW_PACKET_SIZE - 1) |->
                                  st.rxbuf[SLOW_PACKET_OFFSET + i]])
              ELSE e1
    IN  [st EXCEPT !.ecu_data = [e2 EXCEPT !.connected = TRUE],
                   !.new_data_flag = TRUE]

\* the slow index taken modulo the number of variants instead of tested
parse_packet_wrapped(st) ==
    LET e1 == parse_fast(st.ecu_data, st.rxbuf)
        slow_id == st.rxbuf[24] % SLOW_PACKET_COUNT
        e2 == parse_slow(e1, slow_id,
                         [i \in 0..(SLOW_PACKET_SIZE - 1) |->
                             st.rxbuf[SLOW_PACKET_OFFSET + i]])
    IN  [st EXCEPT !.ecu_data =
                       [e2 EXCEPT !.connected = TRUE,
                                  !.packet_count = @ + 1],
                   !.new_data_flag = TRUE]

parse_packet(st) ==
    LET e1 == parse_fast(st.ecu_data, st.rxbuf)
        slow_id == st.rxbuf[24]
        e2 == IF slow_id < SLOW_PACKET_COUNT
              THEN parse_slow(e1, slow_id,
                              [i \in 0..(SLOW_PACKET_SIZE - 1) |->
                                  st.rxbuf[SLOW_PACKET_OFFSET + i]])
              ELSE e1
    IN  [st EXCEPT !.ecu_data =
                       [e2 EXCEPT !.connected = TRUE,
                                  !.packet_count = @ + 1],
                   !.new_data_flag = TRUE]

\* ---------------------------------------------------------------- serial decoder
\* rxstate values (the spec's names for the cases 0..6 of the switch)
WAIT_SYNC_0 == 0
WAIT_SYNC_1 == 1
WAIT_SYNC_2 == 2
WAIT_SYNC_3 == 3
WAIT_VERSION == 4
WAIT_LENGTH == 5
ACCUMULATE_PAYLOAD == 6

\* else { rxstate = 0; retry = true; } of cases 1..4
sync_mismatch_noretry(st) ==
    [st |-> [st EXCEPT !.rxstate = 0], retry |-> FALSE]

sync_mismatch(st) ==
    [st |-> [st EXCEPT !.rxstate = 0], retry |-> TRUE]

\* the sync cases with a mismatch counted as an error
sync_case_counted(st, byte, expected) ==
    IF byte = expected
    THEN [st |-> [st EXCEPT !.rxstate = (@ + 1) % 256], retry |-> FALSE]
    ELSE sync_mismatch([st EXCEPT !.ecu_data.error_count = @ + 1])

\* if (byte == expected) rxstate++; else { rxstate = 0; retry = true; }
sync_case(st, byte, expected) ==
    IF byte = expected
    THEN [st |-> [st EXCEPT !.rxstate = (@ + 1) % 256], retry |-> FALSE]
    ELSE sync_mismatch(st)

\* the length byte without the lower limit
length_case_nomin(st, byte) ==
    IF byte <= MAX_PACKET_LEN
    THEN [st |-> [st EXCEPT !.rxbuf = [@ EXCEPT ![0] = byte],
                            !.rxptr = 1,
                            !.rxstate = (@ + 1) % 256],
          retry |-> FALSE]
    ELSE [st |-> [st EXCEPT !.rxstate = 0], retry |-> FALSE]

\* case 5: the length byte
length_case(st, byte) ==
    IF byte >= MIN_PACKET_LEN /\ byte <= MAX_PACKET_LEN
    THEN [st |-> [st EXCEPT !.rxbuf = [@ EXCEPT ![0] = byte],
                            !.rxptr = 1,
                            !.rxstate = (@ + 1) % 256],
          retry |-> FALSE]
    ELSE [st |-> [st EXCEPT !.rxstate = 0], retry |-> FALSE]

\* the CRC comparison and its two branches, on the state with the byte stored
verify_frame_errconn(st) ==
    LET crc_rx == st.rxbuf[st.rxptr - 2] + (256 * st.rxbuf[st.rxptr - 1])
        crc_calc == checksum(st.rxbuf)
    IN  IF crc_calc = crc_rx
        THEN parse_packet(st)
        ELSE [st EXCEPT !.ecu_data =
                 [@ EXCEPT !.error_count = @ + 1, !.connected = TRUE]]

verify_frame(st) ==
    LET crc_rx == st.rxbuf[st.rxptr - 2] + (256 * st.rxbuf[st.rxptr - 1])
        crc_calc == checksum(st.rxbuf)
    IN  IF crc_calc = crc_rx
        THEN parse_packet(st)
        ELSE [st EXCEPT !.ecu_data.error_count = @ + 1]

\* payload + CRC, the frame taken as complete one byte early
payload_case_early(st, byte) ==
    LET s1 == [st EXCEPT
                 !.rxbuf = IF st.rxptr < MAX_RX_BUF
                           THEN [@ EXCEPT ![st.rxptr] = byte] ELSE @,
                 !.rxptr = (@ + 1) % 256]
    IN  IF s1.rxptr >= s1.rxbuf[0]
        THEN [st |-> [verify_frame(s1) EXCEPT !.rxstate = 0], retry |-> FALSE]
        ELSE [st |-> s1, retry |-> FALSE]

\* case 6: payload + CRC
payload_case(st, byte) ==
    LET s1 == [st EXCEPT
                 !.rxbuf = IF st.rxptr < MAX_RX_BUF
                           THEN [@ EXCEPT ![st.rxptr] = byte] ELSE @,
                 !.rxptr = (@ + 1) % 256]
    IN  IF s1.rxptr > s1.rxbuf[0]
        THEN [st |-> [verify_frame(s1) EXCEPT !.rxstate = 0], retry |-> FALSE]
        ELSE [st |-> s1, retry |-> FALSE]

\* the switch with the sync cases waiting for their byte instead of resetting
feed_switch_waits(st, byte) ==
    CASE st.rxstate = 0 ->
           [st |-> IF byte = HEADER_0
                   THEN [st EXCEPT !.rxstate = (@ + 1) % 256] ELSE st,
            retry |-> FALSE]
      [] st.rxstate = 1 ->
           [st |-> IF byte = HEADER_1
                   THEN [st EXCEPT !.rxstate = (@ + 1) % 256] ELSE st,
            retry |-> FALSE]
      [] st.rxstate = 2 ->
           [st |-> IF byte = HEADER_2
                   THEN [st EXCEPT !.rxstate = (@ + 1) % 256] ELSE st,
            retry |-> FALSE]
      [] st.rxstate = 3 ->
           [st |-> IF byte = HEADER_3
                   THEN [st EXCEPT !.rxstate = (@ + 1) % 256] ELSE st,
            retry |-> FALSE]
      [] st.rxstate = 4 ->
           [st |-> IF byte = INVENT_EMS_PROTOCOL_VER
                   THEN [st EXCEPT !.rxstate = (@ + 1) % 256] ELSE st,
            retry |-> FALSE]
      [] st.rxstate = 5 -> length_case(st, byte)
      [] st.rxstate = 6 -> payload_case(st, byte)
      [] OTHER -> [st |-> [st EXCEPT !.rxstate = 0], retry |-> FALSE]

\* one pass of the switch (rxstate)
feed_switch(st, byte) ==
    CASE st.rxstate = 0 ->
           [st |-> IF byte = HEADER_0
                   THEN [st EXCEPT !.rxstate = (@ + 1) % 256] ELSE st,
            retry |-> FALSE]
      [] st.rxstate = 1 -> sync_case(st, byte, HEADER_1)
      [] st.rxstate = 2 -> sync_case(st, byte, HEADER_2)
      [] st.rxstate = 3 -> sync_case(st, byte, HEADER_3)
      [] st.rxstate = 4 -> sync_case(st, byte, INVENT_EMS_PROTOCOL_VER)
      [] st.rxstate = 5 -> length_case(st, byte)
      [] st.rxstate = 6 -> payload_case(st, byte)
      [] OTHER -> [st |-> [st EXCEPT !.rxstate = 0], retry |-> FALSE]

\* void invent_ems_feed_byte(uint8_t byte): do { ... } while (retry)
RECURSIVE feed_byte(_, _)
feed_byte(st, byte) ==
    LET r == feed_switch(st, byte)
    IN  IF r.retry THEN feed_byte(r.st, byte) ELSE r.st

\* ---------------------------------------------------------------- bus decoder
\* the switch with every case counting the frame as a packet
can_fields_counted(e, id, d) ==
    [e EXCEPT !.packet_count = @ + 1]

\* the switch of invent_ems_feed_can_frame: the record after the field writes
\* of a recognized id; d is the 8-byte payload, indexed 0..7
can_fields(e, id, d) ==
    CASE id = 768 ->   \* 0x300
        [e EXCEPT !.rpm = F(read_u16(d, 0), 1),
                  !.tps = F(read_i16(d, 2), 10),
                  !.map_kpa = F(read_u16(d, 4), 100),
                  !.iat = F(read_i16(d, 6), 10)]
      [] id = 770 ->   \* 0x302
        [e EXCEPT !.ign_angle = F(read_i16(d, 0), 10),
                  !.dwell_ms = F(read_u16(d, 2), 10),
                  !.inj_time_ms = F(read_u16(d, 6), 1000)]
      [] id = 772 ->   \* 0x304
        [e EXCEPT !.oil_temp = F(read_i16(d, 0), 10),
                  !.oil_pressure = F(read_i16(d, 2), 1000),
                  !.clt = F(read_i16(d, 4), 10),
                  !.voltage = F(read_i16(d, 6), 10)]
      [] id = 773 ->   \* 0x305
        [e EXCEPT !.gear = I8(read_i16(d, 0) % 256),
                  !.speed = F(read_u16(d, 4), 10)]
      [] id = 774 ->   \* 0x306
        [e EXCEPT !.knock_v = F(read_i16(d, 0), 10),
                  !.fuel_pressure_kpa = F(read_u16(d, 4), 10),
                  !.fuel_temp = F(read_i16(d, 6), 10)]
      [] id = 775 ->   \* 0x307
        [e EXCEPT !.egt1 = F(read_i16(d, 0), 10),
                  !.egt2 = F(read_i16(d, 2), 10)]
      [] id = 832 ->   \* 0x340
        [e EXCEPT !.speed = F(read_u16(d, 0), 10)]
      [] OTHER -> e

\* the case labels of the switch
CanIds == {768, 770, 772, 773, 774, 775, 832}

\* the statements after the switch
can_recognized_quiet(st) ==
    [st |-> [st EXCEPT !.ecu_data.connected = TRUE], ret |-> TRUE]

can_recognized(st) ==
    [st |-> [st EXCEPT !.ecu_data.connected = TRUE, !.new_data_flag = TRUE],
     ret |-> TRUE]

\* default: return false;
can_default_counted(st) ==
    [st |-> [st EXCEPT !.ecu_data.error_count = @ + 1], ret |-> FALSE]

can_default(st) == [st |-> st, ret |-> FALSE]

\* bool invent_ems_feed_can_frame(uint32_t id, const uint8_t *d, uint8_t dlc):
\* the decoder state after the call, and the value returned; dlc is not used
feed_can_frame(st, id, d) ==
    IF id \in CanIds
    THEN can_recognized([st EXCEPT !.ecu_data = can_fields(@, id, d)])
    ELSE can_default(st)

\* the query with the flag left standing
has_new_data_sticky(st) ==
    [st |-> st, ret |-> st.new_data_flag]

\* bool invent_ems_has_new_data(void): if (new_data_flag) { new_data_flag =
\* false; return true; } return false;
has_new_data(st) ==
    IF st.new_data_flag
    THEN [st |-> [st EXCEPT !.new_data_flag = FALSE], ret |-> TRUE]
    ELSE [st |-> st, ret |-> FALSE]

\* ---------------------------------------------------------------- emulator (CarEmu.c)
\* float arithmetic on rationals
FMul(x, y) == <<x[1] * y[1], x[2] * y[2]>>

\* truncation toward zero of the rational n/d (d > 0): a C float-to-integer cast
Trunc(v) == IF v[1] >= 0 THEN v[1] \div v[2] ELSE -((-v[1]) \div v[2])

\* the byte pattern of an int8_t / the two bytes of a 16-bit value
U8(x) == x % 256
Lo(x) == (x % 65536) % 256
Hi(x) == (x % 65536) \div 256

\* (int16_t)v: the truncated value when it fits; a conversion whose value does
\* not fit is undefined, the build then yields some 16-bit pattern ub
cast_i16(v, ub) ==
    LET t == Trunc(v) IN IF t >= -32768 /\ t <= 32767 THEN t ELSE ub

\* (uint16_t)v
cast_u16(v, ub) ==
    LET t == Trunc(v) IN IF v[1] >= 0 /\ t <= 65535 THEN t ELSE ub

\* static uint16_t rpmToPeriod(float rpm)
rpmToPeriod(rpm) ==
    IF rpm[1] <= 0 THEN 0
    ELSE LET p == (10000000 * rpm[2]) \div rpm[1]
         IN  IF p > 65535 THEN 65535 ELSE p

\* static uint8_t clampU8(float v)
clampU8(v) ==
    IF v[1] < 0 THEN 0
    ELSE IF v[1] > 255 * v[2] THEN 255
    ELSE ((2 * v[1]) + v[2]) \div (2 * v[2])

\* the engine state after initEngineState()
InitEngine ==
    [ rpm |-> F(850, 1), angleDeg |-> F(10, 1), tpsPercent |-> F(5, 1),
      dbwPercent |-> F(5, 1), mapKpa |-> F(35, 1), lambdaVal |-> F(1, 1),
      injTimeMs |-> F(25, 10), rashodLH |-> F(15, 10),
      knockV |-> 10, cylNo |-> 0, transCorr |-> 0, speed |-> 0, runlevel |-> 2,
      corrAngle |-> -2, lambdaTarget |-> F(1, 1), lambdaCorrFast |-> 3,
      lambdaCorrSlow |-> -1, fuelPKpa |-> 300, dwellTime |-> 35,
      voltageV |-> F(141, 10), gearNo |-> 0, dbwCmdPos |-> 12,
      lambda2Val |-> F(102, 100),
      flagMajor |-> 0, flagMinor |-> 0, flagNotify |-> 16, flagNotify2 |-> 0,
      flagProtection |-> 0, idlePosPercent |-> F(30, 1), airflow |-> 120,
      boostDuty |-> 0, boostTarget |-> 50,
      egrCurrPos |-> 0, egrTargetPos |-> 0, injDutyCycle |-> 15,
      injLagTime |-> 120, injEndAngle4 |-> -20, fuelPressCoef |-> 100,
      airChargeT |-> 25, injAirChargeCorr |-> 0, speed2 |-> 0,
      backPKpa |-> F(101, 1),
      ignAccelCorr |-> 0, vvt1Curr |-> 5, vvt1Target |-> 10, vvt2Curr |-> 0,
      vvt2Target |-> 0, vvt1bCurr |-> 0, vvt2bCurr |-> 0, tcsCorr |-> 0,
      pwm3dTarget |-> F(0, 1), pwm3dCurr |-> F(0, 1),
      tripFuelL |-> F(3250, 1000), tripPathKm |-> F(425, 10),
      currFuelCons |-> F(76, 10), tripFuelCons |-> F(76, 10),
      fuelCompPct |-> F(0, 1),
      adcTpsV |-> F(8, 10), adcCtV |-> F(21, 10), adcIatV |-> F(25, 10),
      dbwAdc1V |-> F(8, 10), dbwAdc2V |-> F(32, 10), adcMapV |-> F(1, 1),
      adcLambdaV |-> F(45, 100),
      adcAn |-> [i \in 0..9 |-> F(1, 1)],
      inputState |-> 0, outputState |-> 0, dbwDriverStatus |-> 0,
      dbwSystemStatus |-> 0, gasState |-> 0, atTemp |-> 60, atState |-> 0,
      fuelLevel |-> 128,
      clt |-> 85, iat |-> 30, oilT |-> 95, fuelT |-> 35, egt1 |-> 650,
      egt2 |-> 640, oilPBar |-> F(35, 10),
      cltOverride |-> FALSE, oilTOverride |-> FALSE, oilPOverride |-> FALSE,
      afrTarget |-> F(147, 10), rpmHardLimit |-> 8000, knockEvsCnt |-> 0,
      mapTargetKpa |-> F(100, 1),
      pwmDuty |-> [i \in 0..5 |-> IF i = 0 THEN F(50, 1) ELSE F(0, 1)] ]

\* fillSlow0 .. fillSlow9: the 11 bytes of the slow packet, indexed 0..10
\* (the packet is zeroed before it is filled)
fillSlow0(g) ==
    <<U8(g.corrAngle), clampU8(FMul(g.lambdaTarget, F(128, 1))),
      U8(g.lambdaCorrFast), U8(g.lambdaCorrSlow),
      Lo(g.fuelPKpa), Hi(g.fuelPKpa), g.dwellTime,
      clampU8(FMul(g.voltageV, F(10, 1))), U8(g.gearNo), g.dbwCmdPos,
      clampU8(FMul(g.lambda2Val, F(128, 1)))>>

fillSlow1(g) ==
    <<g.flagMajor, g.flagMinor, g.flagNotify, g.flagNotify2, g.flagProtection,
      clampU8(FMul(g.idlePosPercent, F(256, 100))),
      Lo(g.airflow), Hi(g.airflow), g.boostDuty, g.boostTarget, 0>>

fillSlow2(g) ==
    <<g.egrCurrPos, g.egrTargetPos, g.injDutyCycle,
      Lo(g.injLagTime), Hi(g.injLagTime), U8(g.injEndAngle4),
      g.fuelPressCoef, U8(g.airChargeT), U8(g.injAirChargeCorr), g.speed2,
      clampU8(FMul(g.backPKpa, F(1, 2)))>>

fillSlow3(g) ==
    <<Lo(g.ignAccelCorr), Hi(g.ignAccelCorr), U8(g.vvt1Curr),
      U8(g.vvt1Target), U8(g.vvt2Curr), U8(g.vvt2Target), U8(g.vvt1bCurr),
      U8(g.vvt2bCurr), g.tcsCorr,
      clampU8(FMul(g.pwm3dTarget, F(256, 100))),
      clampU8(FMul(g.pwm3dCurr, F(256, 100)))>>

fillSlow4(g, ub) ==
    LET tf == cast_u16(FMul(g.tripFuelL, F(100, 1)), ub)
        tp == cast_u16(FMul(g.tripPathKm, F(10, 1)), ub)
        cf == cast_u16(FMul(g.currFuelCons, F(10, 1)), ub)
        tc == cast_u16(FMul(g.tripFuelCons, F(10, 1)), ub)
    IN  <<Lo(tf), Hi(tf), Lo(tp), Hi(tp), Lo(cf), Hi(cf), Lo(tc), Hi(tc),
          clampU8(FMul(g.fuelCompPct, F(256, 100))), 0, 0>>

fillSlow5(g) ==
    <<clampU8(FMul(g.adcTpsV, F(256, 5))), clampU8(FMul(g.adcCtV, F(256, 5))),
      clampU8(FMul(g.adcIatV, F(256, 5))), clampU8(FMul(g.dbwAdc1V, F(256, 5))),
      clampU8(FMul(g.dbwAdc2V, F(256, 5))), clampU8(FMul(g.adcMapV, F(256, 5))),
      clampU8(FMul(g.adcLambdaV, F(256, 5))), 0, 0, 0, 0>>

fillSlow6(g) ==
    [i \in 1..11 |->
        IF i <= 10 THEN clampU8(FMul(g.adcAn[i - 1], F(256, 5))) ELSE 0]

fillSlow7(g) ==
    <<g.inputState, Lo(g.outputState), Hi(g.outputState), g.dbwDriverStatus,
      g.dbwSystemStatus, g.gasState, U8(g.atTemp), g.atState, g.fuelLevel,
      0, 0>>

fillSlow8(g) ==
    <<U8(g.clt), U8(g.iat), g.oilT, U8(g.fuelT), 0, Lo(g.egt1), Hi(g.egt1),
      Lo(g.egt2), Hi(g.egt2), clampU8(FMul(g.oilPBar, F(10, 1))), 0>>

fillSlow9(g) ==
    [i \in 1..11 |->
        IF i <= 6 THEN clampU8(FMul(g.pwmDuty[i - 1], F(256, 100))) ELSE 0]

\* switch (slowPacketIndex) of buildAndSend; no case leaves the zeroed packet
fillSlow(g, index, ub) ==
    CASE index = 0 -> fillSlow0(g)
      [] index = 1 -> fillSlow1(g)
      [] index = 2 -> fillSlow2(g)
      [] index = 3 -> fillSlow3(g)
      [] index = 4 -> fillSlow4(g, ub)
      [] index = 5 -> fillSlow5(g)
      [] index = 6 -> fillSlow6(g)
      [] index = 7 -> fillSlow7(g)
      [] index = 8 -> fillSlow8(g)
      [] index = 9 -> fillSlow9(g)
      [] OTHER -> [i \in 1..11 |-> 0]

\* the value buildAndSend stores in pkt->SlowPacketId
SlowPacketId_next(index) == (index + 1) % TOTAL_SLOW_PACKETS

SlowPacketId(index) == index

\* txbuf[0..35] as buildAndSend fills it: the TInfoPacket, before the CRC
InfoPacket(g, index, ub) ==
    LET uoz == cast_i16(FMul(g.angleDeg, F(4, 1)), ub)
        period == rpmToPeriod(g.rpm)
        inj == cast_u16(FMul(g.injTimeMs, F(250, 1)), ub)
        slow == fillSlow(g, index, ub)
    IN  [i \in 0..(SIZEOF_TInfoPacket - 1) |->
          CASE i = 0 -> SIZEOF_TInfoPacket + 1
            [] i = 1 -> 1
            [] i = 2 -> g.runlevel
            [] i = 3 -> Lo(uoz)
            [] i = 4 -> Hi(uoz)
            [] i = 5 -> clampU8(FMul(g.rashodLH, F(16, 1)))
            [] i = 6 -> Lo(period)
            [] i = 7 -> Hi(period)
            [] i = 8 -> Lo(inj)
            [] i = 9 -> Hi(inj)
            [] i = 10 -> g.knockV
            [] i = 11 -> clampU8(FMul(g.tpsPercent, F(255, 100)))
            [] i = 12 -> clampU8(FMul(g.dbwPercent, F(255, 100)))
            [] i = 13 -> clampU8(FMul(g.mapKpa, F(1, 2)))
            [] i = 14 -> clampU8(FMul(g.lambdaVal, F(128, 1)))
            [] i = 15 -> g.cylNo
            [] i = 16 -> U8(g.transCorr)
            [] i = 17 -> g.speed
            [] i \in 18..23 -> 0
            [] i = 24 -> SlowPacketId(index)
            [] OTHER -> slow[i - (SLOW_PACKET_OFFSET - 1)]]

\* the bytes buildAndSend writes to the UART: HEADER, then txbuf with the CRC
\* at offset sizeof(TInfoPacket)
EmuFrame(g, index, ub) ==
    LET pkt == InfoPacket(g, index, ub)
        crc == calcChecksum(pkt)
    IN  <<HEADER_0, HEADER_1, HEADER_2, HEADER_3, INVENT_EMS_PROTOCOL_VER>>
        \o [i \in 1..(SIZEOF_TInfoPacket + 2) |->
              IF i <= SIZEOF_TInfoPacket THEN pkt[i - 1]
              ELSE IF i = SIZEOF_TInfoPacket + 1 THEN crc % 256
              ELSE (crc \div 256) % 256]

\* the index advanced without the wrap
NextSlowIndex_nowrap(index) == (index + 1) % 256

\* slowPacketIndex++; if (slowPacketIndex >= TOTAL_SLOW_PACKETS) = 0
NextSlowIndex(index) ==
    IF (index + 1) % 256 >= TOTAL_SLOW_PACKETS THEN 0 ELSE (index + 1) % 256

\* sinf(simTime * f): one value in [-1, 1] per sample k of simTime and
\* frequency j, in tenths
SinTenths(k, j) == (((k * ((3 * j) + 7)) + 10) % 21) - 10

\* static void simulateEngine(float dt), for the sample k of simTime; the
\* warm-up branch of CLT (simTime < 180) keeps an initial 85 where it is,
\* the other branch gives 88 + 2 sin; oil temperature moves by less than one
\* degree per tick and is truncated
simulateEngine(g, k) ==
    LET S(j) == SinTenths(k, j)
        rpm == F(8500 + (30 * S(0)), 10)
        tps == F(50 + S(1), 10)
        lam == F(1000 + (2 * S(3)), 1000)
        clt == IF g.cltOverride THEN g.clt
               ELSE IF k % 2 = 0 THEN (IF g.clt > 90 THEN 90 ELSE g.clt)
               ELSE Trunc(F(880 + (2 * S(7)), 10))
        target10 == (10 * clt) + 100 + (3 * S(8))
        oilTarget10 == IF target10 < 0 THEN 0
                       ELSE IF target10 > 1500 THEN 1500 ELSE target10
        oilT == IF g.oilTOverride THEN g.oilT
                ELSE IF oilTarget10 < 10 * g.oilT THEN g.oilT - 1 ELSE g.oilT
        oilP0 == F((60000 + rpm[1]) - (200 * S(9)), 20000)
        oilP == IF g.oilPOverride THEN g.oilPBar
                ELSE IF oilP0[1] * 2 < oilP0[2] THEN F(5, 10) ELSE oilP0
    IN  [g EXCEPT
          !.rpm = rpm,
          !.tpsPercent = tps,
          !.dbwPercent = tps,
          !.mapKpa = F(350 + (3 * S(2)), 10),
          !.lambdaVal = lam,
          !.lambda2Val = lam,
          !.injTimeMs = F(250 + (3 * S(0)), 100),
          !.angleDeg = F(120 + (2 * S(4)), 10),
          !.voltageV = F(1400 + (2 * S(5)), 100),
          !.lambdaCorrFast = Trunc(F(5 * S(3), 10)),
          !.lambdaCorrSlow = Trunc(F(2 * S(6), 10)),
          !.clt = clt,
          !.oilT = oilT,
          !.oilPBar = oilP,
          !.cylNo = k % 4,
          !.tripFuelL = F(g.tripFuelL[1] + (k % 3), g.tripFuelL[2])]

\* static void parseCommand(const char* cmd): the command name=v, v the value
\* atoi/atof/strtol reads; the narrowing casts keep the low bits
parseCommand(g, name, v) ==
    CASE name = "rpm" -> [g EXCEPT !.rpm = v]
      [] name = "tps" -> [g EXCEPT !.tpsPercent = v, !.dbwPercent = v]
      [] name = "map" -> [g EXCEPT !.mapKpa = v]
      [] name = "clt" -> [g EXCEPT !.clt = I8(v % 256), !.cltOverride = TRUE]
      [] name = "iat" -> [g EXCEPT !.iat = I8(v % 256)]
      [] name = "fuelt" -> [g EXCEPT !.fuelT = I8(v % 256)]
      [] name = "speed" -> [g EXCEPT !.speed = v % 256, !.speed2 = v % 256]
      [] name = "lambda" -> [g EXCEPT !.lambdaVal = v]
      [] name = "angle" -> [g EXCEPT !.angleDeg = v]
      [] name = "runlevel" -> [g EXCEPT !.runlevel = v % 256]
      [] name = "gear" -> [g EXCEPT !.gearNo = I8(v % 256)]
      [] name = "egt1" -> [g EXCEPT !.egt1 = v % 65536]
      [] name = "egt2" -> [g EXCEPT !.egt2 = v % 65536]
      [] name = "fault" -> [g EXCEPT !.flagMajor = v % 256]
      [] name = "oilp" -> [g EXCEPT !.oilPBar = v, !.oilPOverride = TRUE]
      [] name = "oilt" -> [g EXCEPT !.oilT = v % 256, !.oilTOverride = TRUE]
      [] name = "vvt1" -> [g EXCEPT !.vvt1Target = I8(v % 256)]
      [] OTHER -> g

\* ---------------------------------------------------------------- state
VARIABLES
    rxstate,        \* invent_ems.c: static uint8_t rxstate
    rxbuf,          \* invent_ems.c: static uint8_t rxbuf[MAX_RX_BUF]
    rxptr,          \* invent_ems.c: static uint8_t rxptr
    ecu_data,       \* invent_ems.c: static invent_ems_data_t ecu_data
    new_data_flag,  \* invent_ems.c: static volatile bool new_data_flag
    wire,           \* bytes on the serial line, not yet fed to the decoder
    tx,             \* what the sender put on the line last, and the decoder
                    \* counters at that moment
    noise,          \* number of arbitrary bytes sent so far
    frames,         \* number of frames sent so far
    eng,            \* CarEmu.c: static EngineState eng
    slowPacketIndex,\* CarEmu.c: static uint8_t slowPacketIndex
    mode,           \* config.h: ECU_PROTOCOL of the build, "serial" or "bus"
    uart_rx_buf,    \* pico_dashboard.cpp: static volatile uint8_t uart_rx_buf[]
    uart_rx_head,   \* pico_dashboard.cpp: static volatile uint16_t uart_rx_head
    uart_rx_tail,   \* pico_dashboard.cpp: static uint16_t uart_rx_tail
    rx_buf,         \* bsp_can.c: static bsp_can_frame_t rx_buf[]
    rx_head,        \* bsp_can.c: static volatile uint8_t rx_head
    rx_tail,        \* bsp_can.c: static uint8_t rx_tail
    ecu_data_ready, \* pico_dashboard.cpp: static volatile bool ecu_data_ready
    isr,            \* the producer interrupt: position, and its locals
    cons,           \* the consumer loop: position, and its locals
    arrived,        \* number of items the interface has received so far
    irqs,           \* number of items received since the consumer loop started
    accepted,       \* the numbers of the items the producer enqueued, in order
    delivered,      \* the items passed to the decoder, in order
    can_call,       \* the last call of invent_ems_feed_can_frame made directly:
                    \* its arguments and the value it returned
    crc_call,       \* a buffer handed to the two checksum functions, and
                    \* what each returned, once called
    core1,          \* bus build, the call of invent_ems_feed_can_frame in
                    \* progress on core 1: its arguments and the stores it
                    \* has still to make
    cbus,           \* CarEmu.c: canRunning and canErrors, the number of
                    \* frames in the transmit queue of the can2040 instance
                    \* cbus, the emulator main loop's position, the index i
                    \* of sendAllCAN's loop, and the serial frames emitted
    shown,          \* core 0 between the statements of invent_ems_has_new_data
                    \* and of dashboard_update_cb: its position, the loads the
                    \* callback has still to make, the values it has loaded,
                    \* and how many frames had been handed to the decoder and
                    \* decoded to the end when the callback began (upto)
    poll            \* the new-data query: what the last direct call of
                    \* invent_ems_has_new_data returned (ret), a bit that
                    \* flips at each such call (seq), and whether a frame
                    \* was accepted since the last query (unread)

vars == <<rxstate, rxbuf, rxptr, ecu_data, new_data_flag, wire, tx, noise,
          frames, eng, slowPacketIndex, mode, uart_rx_buf, uart_rx_head,
          uart_rx_tail, rx_buf, rx_head, rx_tail, ecu_data_ready, isr, cons,
          arrived, irqs, accepted, delivered, can_call, poll, crc_call,
          core1, shown, cbus>>
emuvars == <<eng, slowPacketIndex>>
uartvars == <<uart_rx_buf, uart_rx_head, uart_rx_tail>>
canvars == <<rx_buf, rx_head, rx_tail>>
ringvars == <<mode, uartvars, canvars, ecu_data_ready, isr, cons, arrived,
              irqs, accepted, delivered>>
decvars == <<rxstate, rxbuf, rxptr, ecu_data, new_data_flag>>

Dec == [rxstate |-> rxstate, rxbuf |-> rxbuf, rxptr |-> rxptr,
        ecu_data |-> ecu_data, new_data_flag |-> new_data_flag]

SetDec(st) ==
    /\ rxstate' = st.rxstate
    /\ rxbuf' = st.rxbuf
    /\ rxptr' = st.rxptr
    /\ ecu_data' = st.ecu_data
    /\ new_data_flag' = st.new_data_flag

\* no checksum call made
NoCrcCall ==
    [buf |-> [i \in 0..(MAX_RX_BUF - 1) |-> 0],
     rx |-> 0, rx_done |-> FALSE, emu |-> 0, emu_done |-> FALSE]

\* poll after a decoder call that accepted a frame (acc) or did not
Unread(acc) == [poll EXCEPT !.unread = @ \/ acc]

\* the zero-initialised statics of a slot of rx_buf, and the locals of an
\* interrupt or loop that is not running
NoFrame == [id |-> 0, dlc |-> 0, data |-> [i \in 0..7 |-> 0]]
IsrIdle == [pc |-> "idle", next |-> 0, item |-> 0, n |-> 0]
ConsAt(pc) == [pc |-> pc, head |-> 0, item |-> 0]

\* the emulator before its main loop: canRunning = false (the bus starts
\* disabled), nothing queued, no frame emitted
CbusIdle ==
    [canRunning |-> FALSE, canErrors |-> 0, pending |-> 0, pc |-> "loop",
     i |-> 0, ticks |-> 0]

\* no call in progress on core 1, and nothing loaded by the callback yet
Core1Idle == [pc |-> "idle", id |-> 0, d |-> NoFrame.data, todo |-> {}]
NotShown == [pc |-> "idle", todo |-> {}, got |-> {}, oil_pressure |-> NaN,
             clt |-> NaN, oil_temp |-> NaN, upto |-> 0]

\* the ring buffers and the loops of the build m, before main's super-loop
\* (serial) or core1_entry's loop (bus) starts
RingInit(m) ==
    /\ mode = m
    /\ uart_rx_buf = [i \in 0..(UART_RX_BUF_SIZE - 1) |-> 0]
    /\ uart_rx_head = 0
    /\ uart_rx_tail = 0
    /\ rx_buf = [i \in 0..(CAN_RX_BUF_SIZE - 1) |-> NoFrame]
    /\ rx_head = 0
    /\ rx_tail = 0
    /\ ecu_data_ready = FALSE
    /\ isr = IsrIdle
    /\ cons = ConsAt(IF m = "serial" THEN "boot" ELSE "recv")
    /\ arrived = 0
    /\ irqs = 0
    /\ accepted = <<>>
    /\ delivered = <<>>
    /\ can_call = [id |-> 0, d |-> NoFrame.data, ret |-> FALSE]
    /\ poll = [ret |-> FALSE, unread |-> FALSE, seq |-> 0]
    /\ core1 = Core1Idle
    /\ shown = NotShown
    /\ cbus = CbusIdle

\* void invent_ems_init(void); rxbuf is a zero-initialised static
invent_ems_init ==
    /\ rxstate = 0
    /\ rxbuf = [i \in 0..(MAX_RX_BUF - 1) |-> 0]
    /\ rxptr = 0
    /\ ecu_data = InitData
    /\ new_data_flag = FALSE

\* ---------------------------------------------------------------- serial line
MaxNoise == 6
MaxFrames == 2
NoiseBytes == {HEADER_0, HEADER_1, HEADER_2, INVENT_EMS_PROTOCOL_VER,
               MIN_PACKET_LEN, MAX_PACKET_LEN, 255}
\* the two bytes next to the length limits, sent while the decoder waits for
\* a length
LengthProbes == {MIN_PACKET_LEN - 1, MAX_PACKET_LEN + 1}
FrameLens == MIN_PACKET_LEN..MAX_PACKET_LEN
Patterns == {0, 1}
\* the frames sent in any context: the shortest, the emulator's length and
\* the longest; frames of every other length are sent at power-on only
Curated == {<<MIN_PACKET_LEN, 1, TRUE>>, <<MIN_PACKET_LEN, 1, FALSE>>,
            <<SIZEOF_TInfoPacket + 1, 1, TRUE>>,
            <<MAX_PACKET_LEN, 1, TRUE>>}

\* payload byte i of pattern p
PatByte(p, i) == IF p = 0 THEN 0 ELSE ((i * 37) + (p * 85)) % 256

\* the bytes that follow the version byte: length L, L-2 payload bytes, and
\* the sender's checksum, low byte first
FrameBody(L, p) ==
    LET head == [i \in 0..(L - 2) |-> IF i = 0 THEN L ELSE PatByte(p, i)]
        crc == calcChecksum(head)
    IN  [i \in 1..(L + 1) |->
            IF i <= L - 1 THEN head[i - 1]
            ELSE IF i = L THEN crc % 256 ELSE crc \div 256]

ValidFrame(L, p) ==
    <<HEADER_0, HEADER_1, HEADER_2, HEADER_3, INVENT_EMS_PROTOCOL_VER>>
        \o FrameBody(L, p)

\* the frame with its two checksum bytes flipped
BadFrame(L, p) ==
    LET f == ValidFrame(L, p)
        n == Len(f)
    IN  [i \in 1..n |-> IF i >= n - 1 THEN 255 - f[i] ELSE f[i]]

\* the frames the sender can choose from, built once
Frames ==
    [L \in FrameLens, p \in Patterns, ok \in BOOLEAN |->
        IF ok THEN ValidFrame(L, p) ELSE BadFrame(L, p)]

Snapshot(kind) ==
    [kind |-> kind, st0 |-> rxstate, pkt0 |-> ecu_data.packet_count,
     err0 |-> ecu_data.error_count, phase |-> "sending",
     eng |-> eng, idx |-> slowPacketIndex]

\* the sender puts one arbitrary byte on the line
SendNoise(b) ==
    /\ wire = <<>>
    /\ noise < MaxNoise
    /\ wire' = <<b>>
    /\ tx' = Snapshot("noise")
    /\ noise' = noise + 1
    /\ UNCHANGED <<cbus, core1, shown, crc_call, poll, can_call, decvars, frames, emuvars,
                   ringvars>>

\* the sender puts one complete frame on the line: a valid one (ok), or one
\* with a wrong checksum
SendFrame(L, p, ok) ==
    /\ wire = <<>>
    /\ frames < MaxFrames
    /\ <<L, p, ok>> \in Curated
    /\ wire' = Frames[L, p, ok]
    /\ tx' = Snapshot(IF ok THEN "frame" ELSE "bad")
    /\ frames' = frames + 1
    /\ UNCHANGED <<cbus, core1, shown, crc_call, poll, can_call, decvars, noise, emuvars,
                   ringvars>>

\* the first thing on the line after power-on is a frame of any length; it
\* uses up the frame budget
SendFirstFrame(L, p, ok) ==
    /\ wire = <<>>
    /\ frames = 0
    /\ noise = 0
    /\ <<L, p, ok>> \notin Curated
    /\ wire' = Frames[L, p, ok]
    /\ tx' = Snapshot(IF ok THEN "frame" ELSE "bad")
    /\ frames' = MaxFrames
    /\ UNCHANGED <<cbus, core1, shown, crc_call, poll, can_call, decvars, noise, emuvars,
                   ringvars>>

\* one call invent_ems_feed_byte(byte) with the next byte of the line
invent_ems_feed_byte ==
    /\ wire # <<>>
    /\ SetDec(feed_byte(Dec, Head(wire)))
    /\ wire' = Tail(wire)
    /\ tx' = [tx EXCEPT !.phase = IF Len(wire) = 1 THEN "done" ELSE "sending"]
    /\ poll' = Unread(ecu_data'.packet_count # ecu_data.packet_count)
    /\ UNCHANGED <<cbus, core1, shown, crc_call, can_call, noise, frames, emuvars, ringvars>>

InitDec ==
    /\ invent_ems_init
    /\ crc_call = NoCrcCall
    /\ wire = <<>>
    /\ eng = InitEngine
    /\ slowPacketIndex = 0
    /\ RingInit("serial")
    /\ tx = [Snapshot("none") EXCEPT !.phase = "done"]
    /\ noise = 0
    /\ frames = 0

NextDec ==
    \/ \E b \in NoiseBytes : SendNoise(b)
    \/ \E b \in LengthProbes : rxstate = WAIT_LENGTH /\ SendNoise(b)
    \/ \E t \in Curated : SendFrame(t[1], t[2], t[3])
    \/ \E L \in FrameLens, p \in Patterns, ok \in BOOLEAN :
          SendFirstFrame(L, p, ok)
    \/ invent_ems_feed_byte

SpecDec == InitDec /\ [][NextDec]_vars

\* ---------------------------------------------------------------- emulator and decoder
\* the simTime samples of one loop iteration, the commands typed on the
\* console, and the patterns an out-of-range conversion can produce
SimSamples == {1, 2}
NoCommand == [name |-> "", val |-> 0]
Commands == {NoCommand,
             [name |-> "clt", val |-> -40],
             [name |-> "oilp", val |-> F(30, 1)],
             [name |-> "speed", val |-> 300],
             [name |-> "rpm", val |-> F(3000, 1)]}
UbPatterns == {0, 32768}

\* the emulator's main loop runs while the dashboard is still switched off:
\* simulateEngine, buildAndSend (nobody receives the frame), no command
main_dashboard_off ==
    /\ tx.kind = "none"
    /\ eng' = simulateEngine(eng, 0)
    /\ slowPacketIndex' = NextSlowIndex(slowPacketIndex)
    /\ UNCHANGED <<cbus, core1, shown, crc_call, poll, can_call, decvars, wire, tx, noise, frames,
                   ringvars>>

\* one iteration of the emulator's main loop: simulateEngine, buildAndSend,
\* then processSerialCommands with at most one command line; the blocking
\* UART write has pushed the previous frame out, and the decoder has taken it
main(k, ub, cmd) ==
    /\ wire = <<>>
    /\ frames < MaxFrames
    /\ LET g == simulateEngine(eng, k)
       IN  /\ wire' = EmuFrame(g, slowPacketIndex, ub)
           /\ tx' = [Snapshot("emu") EXCEPT !.eng = g]
           /\ eng' = parseCommand(g, cmd.name, cmd.val)
    /\ slowPacketIndex' = NextSlowIndex(slowPacketIndex)
    /\ frames' = frames + 1
    /\ UNCHANGED <<cbus, core1, shown, crc_call, poll, can_call, decvars, noise, ringvars>>

InitEmu == InitDec

NextEmu ==
    \/ main_dashboard_off
    \/ \E k \in SimSamples, ub \in UbPatterns, cmd \in Commands : main(k, ub, cmd)
    \/ invent_ems_feed_byte

SpecEmu == InitEmu /\ [][NextEmu]_vars

\* ---------------------------------------------------------------- ring buffers
\* items arrive MaxArrivals at most once the consumer loop runs; in the serial
\* build main initialises the UI after it has enabled the UART interrupt, and
\* a backlog of bytes is queued before the first drain
MaxArrivals == 4
Backlogs == {0, UART_RX_BUF_SIZE - 3}
BusBacklog == CAN_RX_BUF_SIZE - 3

\* item number n of the input: a byte of the serial line, a frame of the bus.
\* The serial line repeats one valid frame, ValidFrame(MIN_PACKET_LEN, 1)
\* written out byte by byte.
StreamFrame == <<85, 0, 170, 0, 84, 4, 122, 159, 152, 59>>
StreamByte(n) == StreamFrame[(n % Len(StreamFrame)) + 1]
BusIds == <<768, 770, 769, 772, 773, 774, 775, 832>>
BusFrame(n) ==
    [id |-> BusIds[(n % 8) + 1], dlc |-> 8,
     data |-> [i \in 0..7 |-> ((n * 7) + (i * 3)) % 256]]

\* uint16_t next = (uart_rx_head + 1) % UART_RX_BUF_SIZE;
uart_head_next(h) == (h + 1) % UART_RX_BUF_SIZE

\* if (next != uart_rx_tail)
uart_always_room(next, tail) == TRUE

uart_has_room(next, tail) == next # tail

\* uart_rx_tail = (uart_rx_tail + 1) % UART_RX_BUF_SIZE;
uart_tail_skip(t) == (t + 2) % UART_RX_BUF_SIZE

uart_tail_next(t) == (t + 1) % UART_RX_BUF_SIZE

\* uint8_t next = (rx_head + 1) % CAN_RX_BUF_SIZE;
can_head_nowrap(h) == (h + 1) % 256

can_head_next(h) == (h + 1) % CAN_RX_BUF_SIZE

\* if (next != rx_tail)
can_has_room(next, tail) == next # tail

\* rx_tail = (rx_tail + 1) % CAN_RX_BUF_SIZE;
can_tail_next(t) == (t + 1) % CAN_RX_BUF_SIZE

\* one pass of the loop of uart0_irq_handler, for byte number n, on the ring
\* r = [buf, head, tail, accepted]
uart_put(r, n) ==
    LET next == uart_head_next(r.head) IN
    IF uart_has_room(next, r.tail)
    THEN [r EXCEPT !.buf = [@ EXCEPT ![r.head] = StreamByte(n)],
                   !.head = next,
                   !.accepted = Append(@, n)]
    ELSE r

\* one run of uart0_irq_handler: its while loop takes the bytes first, ..,
\* last - 1 out of the hardware FIFO, which holds UART_FIFO_DEPTH of them
RECURSIVE uart_irq_run(_, _, _)
uart_irq_run(r, first, last) ==
    IF first >= last THEN r
    ELSE LET q == uart_put(r, first)
         IN  IF q.head >= 0 THEN uart_irq_run(q, first + 1, last) ELSE q

\* the runs of uart0_irq_handler that take the bytes first, .., last - 1
RECURSIVE uart_burst(_, _, _)
uart_burst(r, first, last) ==
    IF first >= last THEN r
    ELSE LET m == IF first + UART_FIFO_DEPTH < last
                  THEN first + UART_FIFO_DEPTH ELSE last
             q == uart_irq_run(r, first, m)
         IN  IF q.head >= 0 THEN uart_burst(q, m, last) ELSE q

\* main, from irq_set_enabled(UART0_IRQ, true) to the super-loop: the UI is
\* initialised while uart0_irq_handler queues the k bytes that arrive
main_ui_init(k) ==
    /\ mode = "serial"
    /\ cons.pc = "boot"
    /\ LET r == uart_burst([buf |-> uart_rx_buf, head |-> uart_rx_head,
                            tail |-> uart_rx_tail, accepted |-> accepted],
                           arrived, arrived + k)
       IN  /\ uart_rx_buf' = r.buf
           /\ uart_rx_head' = r.head
           /\ accepted' = r.accepted
    /\ arrived' = arrived + k
    /\ cons' = ConsAt("snapshot")
    /\ UNCHANGED <<cbus, core1, shown, crc_call, poll, can_call, decvars, wire, tx, noise, frames,
                   emuvars, mode, uart_rx_tail, canvars, ecu_data_ready, isr,
                   irqs, delivered>>

\* uart0_irq_handler: ch = uart_getc(uart0); next = ...; if (next != tail)
uart0_irq_handler_read ==
    /\ mode = "serial"
    /\ cons.pc # "boot"
    /\ isr.pc = "idle"
    /\ irqs < MaxArrivals
    /\ LET next == uart_head_next(uart_rx_head) IN
       isr' = IF uart_has_room(next, uart_rx_tail)
              THEN [pc |-> "store", next |-> next,
                    item |-> StreamByte(arrived), n |-> arrived]
              ELSE IsrIdle
    /\ arrived' = arrived + 1
    /\ irqs' = irqs + 1
    /\ UNCHANGED <<cbus, core1, shown, crc_call, poll, can_call, decvars, wire, tx, noise, frames,
                   emuvars, mode, uartvars, canvars, ecu_data_ready, cons,
                   accepted, delivered>>

\* uart0_irq_handler: uart_rx_buf[uart_rx_head] = ch;
uart0_irq_handler_store ==
    /\ mode = "serial"
    /\ isr.pc = "store"
    /\ uart_rx_buf' = [uart_rx_buf EXCEPT ![uart_rx_head] = isr.item]
    /\ isr' = [isr EXCEPT !.pc = "publish"]
    /\ UNCHANGED <<cbus, core1, shown, crc_call, poll, can_call, decvars, wire, tx, noise, frames,
                   emuvars, mode, uart_rx_head, uart_rx_tail, canvars,
                   ecu_data_ready, cons, arrived, irqs, accepted, delivered>>

\* uart0_irq_handler: uart_rx_head = next;
uart0_irq_handler_publish ==
    /\ mode = "serial"
    /\ isr.pc = "publish"
    /\ uart_rx_head' = isr.next
    /\ accepted' = Append(accepted, isr.n)
    /\ isr' = IsrIdle
    /\ UNCHANGED <<cbus, core1, shown, crc_call, poll, can_call, decvars, wire, tx, noise, frames,
                   emuvars, mode, uart_rx_buf, uart_rx_tail, canvars,
                   ecu_data_ready, cons, arrived, irqs, delivered>>

\* main: uint16_t head = uart_rx_head;
main_drain_snapshot ==
    /\ mode = "serial"
    /\ cons.pc = "snapshot"
    /\ cons' = [pc |-> "test", head |-> uart_rx_head, item |-> 0]
    /\ UNCHANGED <<cbus, core1, shown, crc_call, poll, can_call, decvars, wire, tx, noise, frames,
                   emuvars, mode, uartvars, canvars, ecu_data_ready, isr,
                   arrived, irqs, accepted, delivered>>

\* main: while (uart_rx_tail != head)
main_drain_test ==
    /\ mode = "serial"
    /\ cons.pc = "test"
    /\ cons' = IF uart_rx_tail # cons.head
               THEN [cons EXCEPT !.pc = "load"]
               ELSE ConsAt("rest")
    /\ UNCHANGED <<cbus, core1, shown, crc_call, poll, can_call, decvars, wire, tx, noise, frames,
                   emuvars, mode, uartvars, canvars, ecu_data_ready, isr,
                   arrived, irqs, accepted, delivered>>

\* main: uint8_t byte = uart_rx_buf[uart_rx_tail];
main_drain_load ==
    /\ mode = "serial"
    /\ cons.pc = "load"
    /\ cons' = [cons EXCEPT !.pc = "advance", !.item = uart_rx_buf[uart_rx_tail]]
    /\ UNCHANGED <<cbus, core1, shown, crc_call, poll, can_call, decvars, wire, tx, noise, frames,
                   emuvars, mode, uartvars, canvars, ecu_data_ready, isr,
                   arrived, irqs, accepted, delivered>>

\* main: uart_rx_tail = (uart_rx_tail + 1) % UART_RX_BUF_SIZE;
main_drain_advance ==
    /\ mode = "serial"
    /\ cons.pc = "advance"
    /\ uart_rx_tail' = uart_tail_next(uart_rx_tail)
    /\ cons' = [cons EXCEPT !.pc = "feed"]
    /\ UNCHANGED <<cbus, core1, shown, crc_call, poll, can_call, decvars, wire, tx, noise, frames,
                   emuvars, mode, uart_rx_buf, uart_rx_head, canvars,
                   ecu_data_ready, isr, arrived, irqs, accepted, delivered>>

\* main: invent_ems_feed_byte(byte);
main_drain_feed ==
    /\ mode = "serial"
    /\ cons.pc = "feed"
    /\ SetDec(feed_byte(Dec, cons.item))
    /\ delivered' = Append(delivered, cons.item)
    /\ cons' = [cons EXCEPT !.pc = "test", !.item = 0]
    /\ poll' = Unread(ecu_data'.packet_count # ecu_data.packet_count)
    /\ UNCHANGED <<cbus, core1, shown, crc_call, can_call, wire, tx, noise, frames, emuvars, mode,
                   uartvars, canvars, ecu_data_ready, isr, arrived, irqs,
                   accepted>>

\* the rest of the pass, with the presentation marking the record as stale
main_present_stale(due) ==
    /\ mode = "serial" => cons.pc = "rest"
    /\ LET ready == ecu_data_ready \/ new_data_flag IN
       /\ new_data_flag' = FALSE
       /\ ecu_data_ready' = (ready /\ ~due)
    /\ ecu_data' = [ecu_data EXCEPT !.connected = FALSE]
    /\ cons' = IF mode = "serial" THEN ConsAt("snapshot") ELSE cons
    /\ poll' = [poll EXCEPT !.unread = FALSE]
    /\ UNCHANGED <<cbus, core1, shown, crc_call, can_call, rxstate, rxbuf, rxptr, wire, tx, noise,
                   frames, emuvars, mode, uartvars, canvars, isr, arrived,
                   irqs, accepted, delivered>>

\* main, the rest of one pass of the super-loop: has_new_data sets
\* ecu_data_ready, then lv_timer_handler runs dashboard_update_cb when its
\* timer is due, then the loop sleeps; in the bus build this is all of the loop
main_present(due) ==
    /\ mode = "serial" => cons.pc = "rest"
    /\ LET ready == ecu_data_ready \/ new_data_flag IN
       /\ new_data_flag' = FALSE
       /\ ecu_data_ready' = (ready /\ ~due)
    /\ cons' = IF mode = "serial" THEN ConsAt("snapshot") ELSE cons
    /\ poll' = [poll EXCEPT !.unread = FALSE]
    /\ UNCHANGED <<cbus, core1, shown, crc_call, can_call, rxstate, rxbuf, rxptr, ecu_data, wire,
                   tx, noise, frames, emuvars, mode, uartvars, canvars, isr,
                   arrived, irqs, accepted, delivered>>

\* can_rx_cb for a notification CAN2040_NOTIFY_RX (any other one changes
\* nothing): next = (rx_head + 1) % CAN_RX_BUF_SIZE; if (next != rx_tail)
can_rx_cb_test ==
    /\ mode = "bus"
    /\ isr.pc = "idle"
    /\ irqs < BusBacklog + MaxArrivals
    /\ LET next == can_head_next(rx_head) IN
       isr' = IF can_has_room(next, rx_tail)
              THEN [pc |-> "store", next |-> next,
                    item |-> BusFrame(arrived), n |-> arrived]
              ELSE IsrIdle
    /\ arrived' = arrived + 1
    /\ irqs' = irqs + 1
    /\ UNCHANGED <<cbus, core1, shown, crc_call, poll, can_call, decvars, wire, tx, noise, frames,
                   emuvars, mode, uartvars, canvars, ecu_data_ready, cons,
                   accepted, delivered>>

\* the store made at the slot after the producer index
can_rx_cb_store_next ==
    /\ mode = "bus"
    /\ isr.pc = "store"
    /\ rx_buf' = [rx_buf EXCEPT ![isr.next].id = isr.item.id,
                                ![isr.next].dlc = isr.item.dlc]
    /\ isr' = [isr EXCEPT !.pc = "memcpy"]
    /\ UNCHANGED <<cbus, core1, shown, crc_call, poll, can_call, decvars, wire, tx, noise, frames,
                   emuvars, mode, uartvars, rx_head, rx_tail, ecu_data_ready,
                   cons, arrived, irqs, accepted, delivered>>

\* can_rx_cb: rx_buf[rx_head].id = msg->id; rx_buf[rx_head].dlc = msg->dlc;
can_rx_cb_store ==
    /\ mode = "bus"
    /\ isr.pc = "store"
    /\ rx_buf' = [rx_buf EXCEPT ![rx_head].id = isr.item.id,
                                ![rx_head].dlc = isr.item.dlc]
    /\ isr' = [isr EXCEPT !.pc = "memcpy"]
    /\ UNCHANGED <<cbus, core1, shown, crc_call, poll, can_call, decvars, wire, tx, noise, frames,
                   emuvars, mode, uartvars, rx_head, rx_tail, ecu_data_ready,
                   cons, arrived, irqs, accepted, delivered>>

\* the payload left out of the slot
can_rx_cb_memcpy_skipped ==
    /\ mode = "bus"
    /\ isr.pc = "memcpy"
    /\ isr' = [isr EXCEPT !.pc = "publish"]
    /\ UNCHANGED <<cbus, core1, shown, crc_call, poll, can_call, decvars, wire, tx, noise, frames,
                   emuvars, mode, uartvars, canvars, ecu_data_ready, cons,
                   arrived, irqs, accepted, delivered>>

\* can_rx_cb: memcpy(rx_buf[rx_head].data, msg->data, 8);
can_rx_cb_memcpy ==
    /\ mode = "bus"
    /\ isr.pc = "memcpy"
    /\ rx_buf' = [rx_buf EXCEPT ![rx_head].data = isr.item.data]
    /\ isr' = [isr EXCEPT !.pc = "publish"]
    /\ UNCHANGED <<cbus, core1, shown, crc_call, poll, can_call, decvars, wire, tx, noise, frames,
                   emuvars, mode, uartvars, rx_head, rx_tail, ecu_data_ready,
                   cons, arrived, irqs, accepted, delivered>>

\* can_rx_cb: rx_head = next;
can_rx_cb_publish ==
    /\ mode = "bus"
    /\ isr.pc = "publish"
    /\ rx_head' = isr.next
    /\ accepted' = Append(accepted, isr.n)
    /\ isr' = IsrIdle
    /\ UNCHANGED <<cbus, core1, shown, crc_call, poll, can_call, decvars, wire, tx, noise, frames,
                   emuvars, mode, uartvars, rx_buf, rx_tail, ecu_data_ready,
                   cons, arrived, irqs, delivered>>

\* the test reporting an empty buffer while one frame is queued
bsp_can_recv_test_short ==
    /\ mode = "bus"
    /\ cons.pc = "recv"
    /\ cons' = IF rx_tail = rx_head \/ can_tail_next(rx_tail) = rx_head
               THEN cons ELSE [cons EXCEPT !.pc = "copy"]
    /\ UNCHANGED <<cbus, core1, shown, crc_call, poll, can_call, decvars, wire, tx, noise, frames,
                   emuvars, mode, uartvars, canvars, ecu_data_ready, isr,
                   arrived, irqs, accepted, delivered>>

\* bsp_can_recv: if (rx_tail == rx_head) return false; core1_entry then
\* polls again
bsp_can_recv_test ==
    /\ mode = "bus"
    /\ cons.pc = "recv"
    /\ cons' = IF rx_tail = rx_head THEN cons ELSE [cons EXCEPT !.pc = "copy"]
    /\ UNCHANGED <<cbus, core1, shown, crc_call, poll, can_call, decvars, wire, tx, noise, frames,
                   emuvars, mode, uartvars, canvars, ecu_data_ready, isr,
                   arrived, irqs, accepted, delivered>>

\* bsp_can_recv: *frame = rx_buf[rx_tail];
bsp_can_recv_copy ==
    /\ mode = "bus"
    /\ cons.pc = "copy"
    /\ cons' = [cons EXCEPT !.pc = "advance", !.item = rx_buf[rx_tail]]
    /\ UNCHANGED <<cbus, core1, shown, crc_call, poll, can_call, decvars, wire, tx, noise, frames,
                   emuvars, mode, uartvars, canvars, ecu_data_ready, isr,
                   arrived, irqs, accepted, delivered>>

\* bsp_can_recv: rx_tail = (rx_tail + 1) % CAN_RX_BUF_SIZE; return true;
bsp_can_recv_advance ==
    /\ mode = "bus"
    /\ cons.pc = "advance"
    /\ rx_tail' = can_tail_next(rx_tail)
    /\ cons' = [cons EXCEPT !.pc = "feed"]
    /\ UNCHANGED <<cbus, core1, shown, crc_call, poll, can_call, decvars, wire, tx, noise, frames,
                   emuvars, mode, uartvars, rx_buf, rx_head, ecu_data_ready,
                   isr, arrived, irqs, accepted, delivered>>

\* core1_entry: invent_ems_feed_can_frame(frame.id, frame.data, frame.dlc);
core1_entry_feed ==
    /\ mode = "bus"
    /\ cons.pc = "feed"
    /\ SetDec(feed_can_frame(Dec, cons.item.id, cons.item.data).st)
    /\ poll' = Unread(feed_can_frame(Dec, cons.item.id, cons.item.data).ret)
    /\ delivered' = Append(delivered, cons.item)
    /\ cons' = ConsAt("recv")
    /\ UNCHANGED <<cbus, core1, shown, crc_call, can_call, wire, tx, noise, frames, emuvars, mode,
                   uartvars, canvars, ecu_data_ready, isr, arrived, irqs,
                   accepted>>

\* either build, after invent_ems_init
InitRing ==
    /\ invent_ems_init
    /\ crc_call = NoCrcCall
    /\ wire = <<>>
    /\ noise = 0
    /\ frames = 0
    /\ eng = InitEngine
    /\ slowPacketIndex = 0
    /\ \E m \in {"serial", "bus"} : RingInit(m)
    /\ tx = [Snapshot("none") EXCEPT !.phase = "done"]

NextRing ==
    \/ \E k \in Backlogs : main_ui_init(k)
    \/ uart0_irq_handler_read
    \/ uart0_irq_handler_store
    \/ uart0_irq_handler_publish
    \/ main_drain_snapshot
    \/ main_drain_test
    \/ main_drain_load
    \/ main_drain_advance
    \/ main_drain_feed
    \/ \E due \in BOOLEAN : main_present(due)
    \/ can_rx_cb_test
    \/ can_rx_cb_store
    \/ can_rx_cb_memcpy
    \/ can_rx_cb_publish
    \/ bsp_can_recv_test
    \/ bsp_can_recv_copy
    \/ bsp_can_recv_advance
    \/ core1_entry_feed

SpecRing == InitRing /\ [][NextRing]_vars

\* The loop that drains the buffer never stops: main's super-loop is
\* while (true) with a bounded sleep, core1_entry's loop is while (true)
\* around bsp_can_recv. Nothing is assumed of the interrupt: it may never
\* come, and (a superset of what the hardware does) it may stay between two
\* of its statements. Nothing is assumed of main before its super-loop
\* either: until it gets there no byte is taken from the line.
\* The call invent_ems_feed_byte(byte) always returns, so the feed statement
\* is named here by what it does to the loop's position alone.
DrainLoop ==
    \/ main_drain_snapshot
    \/ main_drain_test
    \/ main_drain_load
    \/ main_drain_advance
    \/ /\ mode = "serial"
       /\ cons.pc = "feed"
       /\ cons' = [cons EXCEPT !.pc = "test", !.item = 0]
    \/ mode = "serial" /\ \E due \in BOOLEAN : main_present(due)
    \/ bsp_can_recv_test
    \/ bsp_can_recv_copy
    \/ bsp_can_recv_advance
    \/ core1_entry_feed

SpecRingLive == SpecRing /\ WF_cons(DrainLoop)

\* ---------------------------------------------------------------- bus decoder, called directly
\* the identifiers and payloads of the calls: every case label, identifiers
\* next to them, the ends of the 11-bit range, and a 29-bit identifier whose
\* low bits are those of 0x300
CallIds == CanIds \cup {0, 767, 769, 771, 776, 833, 2047, 66304}
\* the payload whose four little-endian sub-fields are 2500, 50, 10000, 250
Scenario0x300 ==
    [i \in 0..7 |-> <<196, 9, 50, 0, 16, 39, 250, 0>>[i + 1]]

Payloads ==
    { [i \in 0..7 |-> 0],
      [i \in 0..7 |-> 255],
      [i \in 0..7 |-> ((i * 37) + 196) % 256],
      Scenario0x300 }

\* one call invent_ems_feed_can_frame(id, d, 8)
invent_ems_feed_can_frame(id, d) ==
    /\ frames < MaxFrames
    /\ LET r == feed_can_frame(Dec, id, d) IN
       /\ SetDec(r.st)
       /\ can_call' = [id |-> id, d |-> d, ret |-> r.ret]
       /\ poll' = Unread(r.ret)
    /\ frames' = frames + 1
    /\ UNCHANGED <<cbus, core1, shown, crc_call, wire, tx, noise, emuvars, ringvars>>

InitCanDec ==
    /\ invent_ems_init
    /\ crc_call = NoCrcCall
    /\ wire = <<>>
    /\ noise = 0
    /\ frames = 0
    /\ eng = InitEngine
    /\ slowPacketIndex = 0
    /\ RingInit("bus")
    /\ tx = [Snapshot("none") EXCEPT !.phase = "done"]

NextCanDec ==
    \E id \in CallIds, d \in Payloads : invent_ems_feed_can_frame(id, d)

SpecCanDec == InitCanDec /\ [][NextCanDec]_vars

\* ---------------------------------------------------------------- the two checksum functions
\* checksum (receiver) and calcChecksum (emulator) applied to the same
\* buffers of MAX_RX_BUF bytes.

\* the length bytes tried: every length the decoder takes, the values
\* around the limit MAX_RX_BUF at which the receiver's guard acts, and the
\* ends of the byte range
CrcLens ==
    {0, 1, 2, 3} \cup FrameLens \cup (MAX_RX_BUF - 2)..(MAX_RX_BUF + 1) \cup {255}

\* calcChecksum reads the indices 0..(uint8_t)(buffer[0] - 2): with these
\* length bytes it stays inside a buffer of MAX_RX_BUF bytes. With any other
\* it reads past the buffer (and with 1, len is 255 and its loop on a uint8_t
\* index never ends); the emulator is not called on those.
ReadsInside(b0) == b0 >= 2 /\ b0 - 2 <= MAX_RX_BUF - 1
CrcPatterns == {0, 1, 2}

\* the buffer with length byte b0 and the bytes of pattern p
CrcBuf(b0, p) ==
    [i \in 0..(MAX_RX_BUF - 1) |-> IF i = 0 THEN b0 ELSE PatByte(p, i)]

\* one call checksum(buf) of the receiver
checksum_call ==
    /\ ~crc_call.rx_done
    /\ crc_call' = [crc_call EXCEPT !.rx = checksum(crc_call.buf),
                                    !.rx_done = TRUE]
    /\ UNCHANGED <<cbus, core1, shown, can_call, poll, decvars, wire, tx, noise, frames, emuvars,
                   ringvars>>

\* one call calcChecksum(buffer) of the emulator
calcChecksum_call ==
    /\ ~crc_call.emu_done
    /\ ReadsInside(crc_call.buf[0])
    /\ crc_call' = [crc_call EXCEPT !.emu = calcChecksum(crc_call.buf),
                                    !.emu_done = TRUE]
    /\ UNCHANGED <<cbus, core1, shown, can_call, poll, decvars, wire, tx, noise, frames, emuvars,
                   ringvars>>

InitCrc ==
    /\ invent_ems_init
    /\ wire = <<>>
    /\ noise = 0
    /\ frames = 0
    /\ eng = InitEngine
    /\ slowPacketIndex = 0
    /\ RingInit("serial")
    /\ tx = [Snapshot("none") EXCEPT !.phase = "done"]
    /\ \E b0 \in CrcLens, p \in CrcPatterns :
          crc_call = [NoCrcCall EXCEPT !.buf = CrcBuf(b0, p)]

NextCrc == checksum_call \/ calcChecksum_call

SpecCrc == InitCrc /\ [][NextCrc]_vars

\* ---------------------------------------------------------------- the decoder's interface
\* The decoder called as a library: bytes and bus frames are fed, and the
\* new-data query is made at any moment between two calls.

\* the bus frames fed here: a recognised identifier and an unknown one
QueryIds == {768, 769}
QueryPayload == [i \in 0..7 |-> ((i * 37) + 196) % 256]

\* one call invent_ems_has_new_data()
invent_ems_has_new_data ==
    /\ LET r == has_new_data(Dec) IN
       /\ SetDec(r.st)
       /\ poll' = [ret |-> r.ret, unread |-> FALSE, seq |-> 1 - poll.seq]
    /\ UNCHANGED <<cbus, core1, shown, crc_call, can_call, wire, tx, noise, frames, emuvars,
                   ringvars>>

InitQuery == InitDec

NextQuery ==
    \/ \E t \in Curated : SendFrame(t[1], t[2], t[3])
    \/ invent_ems_feed_byte
    \/ \E id \in QueryIds : invent_ems_feed_can_frame(id, QueryPayload)
    \/ invent_ems_has_new_data

SpecQuery == InitQuery /\ [][NextQuery]_vars

\* ---------------------------------------------------------------- claims, serial decoder
\* this step is one call of invent_ems_feed_byte, with the byte Head(wire)
FeedStep == wire # <<>> /\ wire' = Tail(wire)

\* the frame buffer once the byte of this call is stored
Stored == [rxbuf EXCEPT ![rxptr] = Head(wire)]

\* the byte of this call is the last one of the frame being accumulated
Completes == rxstate = ACCUMULATE_PAYLOAD /\ rxptr + 1 > rxbuf[0]

\* the received checksum: the last two accumulated bytes, low byte first
Received == rxbuf[rxptr - 1] + (256 * Head(wire))

\* the fast channels of a frame buffer b, by offset and scale factor
FastDecoded(e, b) ==
    /\ e.runlevel = b[2]
    /\ e.ign_angle = F(read_i16(b, 3), 4)
    /\ e.fuel_flow = F(b[5], 16)
    /\ e.rpm = IF read_u16(b, 6) > 0 THEN F(10000000, read_u16(b, 6)) ELSE F(0, 1)
    /\ e.inj_time_ms = F(read_u16(b, 8) * 4, 1000)
    /\ e.knock_v = F(b[10] * 5, 256)
    /\ e.tps = F(b[11] * 100, 255)
    /\ e.dbw_pos = F(b[12] * 100, 255)
    /\ e.map_kpa = F(b[13] * 2, 1)
    /\ e.lambda = F(b[14], 128)
    /\ e.cyl_no = b[15]
    /\ e.transient_corr = I8(b[16])
    /\ e.speed = F(b[17], 1)

C2_AcceptCall ==
    [][(FeedStep /\ Completes /\ checksum(Stored) = Received)
        => /\ FastDecoded(ecu_data', Stored)
           /\ ecu_data'.connected = TRUE
           /\ ecu_data'.packet_count = ecu_data.packet_count + 1
           /\ new_data_flag' = TRUE
           /\ ecu_data'.error_count = ecu_data.error_count
           /\ rxstate' = WAIT_SYNC_0]_vars

\* a second valid frame has just been accepted
C2_Witness ==
    /\ tx.kind = "frame" /\ tx.phase = "done"
    /\ ecu_data.packet_count = 2
    /\ ecu_data.connected /\ new_data_flag
    /\ rxstate = WAIT_SYNC_0
    /\ FastDecoded(ecu_data, rxbuf)

\* C3: the call that completes a frame whose checksum does not match adds
\* exactly 1 to error_count and changes nothing else of the record (no
\* telemetry field, not connected, not packet_count), leaves the new-data
\* signal alone and returns to WAIT_SYNC_0.
C3_RejectCall ==
    [][(FeedStep /\ Completes /\ checksum(Stored) # Received)
        => /\ ecu_data' = [ecu_data EXCEPT !.error_count = @ + 1]
           /\ new_data_flag' = new_data_flag
           /\ rxstate' = WAIT_SYNC_0]_vars

\* a frame with flipped checksum bytes has just been rejected, after a valid
\* frame had been decoded
C3_Witness ==
    /\ tx.kind = "bad" /\ tx.phase = "done"
    /\ tx.st0 = WAIT_SYNC_0
    /\ ecu_data.error_count = tx.err0 + 1
    /\ ecu_data.packet_count = 1
    /\ ecu_data.connected

\* ---------------------------------------------------------------- claims, emulator to decoder
\* the slow packet of the frame the decoder holds
SlowBytes == [i \in 0..(SLOW_PACKET_SIZE - 1) |-> rxbuf[SLOW_PACKET_OFFSET + i]]

\* C4: every frame buildAndSend emits (5 header bytes, length byte 37, payload,
\* 2 checksum bytes), fed in order to a decoder in WAIT_SYNC_0, is accepted:
\* no counter moves before the last byte, then packet_count has increased by
\* exactly 1, error_count is unchanged, and the slow fields the decoder holds
\* are those of the variant whose index the emulator placed in the frame.
C4_EmulatorFrameAccepted ==
    (tx.kind = "emu" /\ tx.st0 = WAIT_SYNC_0) =>
        /\ tx.phase = "sending" =>
              /\ Len(wire) \in 1..(5 + SIZEOF_TInfoPacket + 2)
              /\ ecu_data.packet_count = tx.pkt0
              /\ ecu_data.error_count = tx.err0
        /\ tx.phase = "done" =>
              /\ ecu_data.packet_count = tx.pkt0 + 1
              /\ ecu_data.error_count = tx.err0
              /\ rxbuf[0] = SIZEOF_TInfoPacket + 1
              /\ rxbuf[SLOW_PACKET_OFFSET - 1] = tx.idx
              /\ ecu_data = parse_slow(ecu_data, tx.idx, SlowBytes)
              /\ rxstate = WAIT_SYNC_0

\* C4 witness: the second frame of a session, carrying the last slow variant,
\* has been fed completely and counted.
C4_Witness ==
    /\ tx.kind = "emu" /\ tx.phase = "done" /\ tx.st0 = WAIT_SYNC_0
    /\ tx.idx = TOTAL_SLOW_PACKETS - 1
    /\ tx.pkt0 = 1
    /\ ecu_data.packet_count = 2
    /\ ecu_data.pwm_duty[0] = F(128 * 100, 256)

\* |dec - orig| <= scale / 2, on rationals
Within(dec, orig, scale) ==
    LET diff == (dec[1] * orig[2]) - (orig[1] * dec[2])
        abs == IF diff < 0 THEN -diff ELSE diff
    IN  2 * scale[2] * abs <= scale[1] * dec[2] * orig[2]

\* a raw ADC count in volts
Volts(raw) == F(raw * 5, 256)

\* the fast fields of record e reproduce engine state g; rpm travels as a
\* period and has no scale factor, it is not compared
FastRoundTrip(e, g) ==
    /\ e.runlevel = g.runlevel
    /\ Within(e.ign_angle, g.angleDeg, F(1, 4))
    /\ Within(e.fuel_flow, g.rashodLH, F(1, 16))
    /\ Within(e.inj_time_ms, g.injTimeMs, F(4, 1000))
    /\ Within(e.knock_v, Volts(g.knockV), F(5, 256))
    /\ Within(e.tps, g.tpsPercent, F(100, 255))
    /\ Within(e.dbw_pos, g.dbwPercent, F(100, 255))
    /\ Within(e.map_kpa, g.mapKpa, F(2, 1))
    /\ Within(e.lambda, g.lambdaVal, F(1, 128))
    /\ e.cyl_no = g.cylNo
    /\ e.transient_corr = g.transCorr
    /\ Within(e.speed, F(g.speed, 1), F(1, 1))

\* the fields of slow variant id of record e reproduce engine state g
SlowRoundTrip(e, g, id) ==
    CASE id = 0 ->
        /\ e.corr_angle = g.corrAngle
        /\ Within(e.lambda_target, g.lambdaTarget, F(1, 128))
        /\ e.lambda_corr_fast = g.lambdaCorrFast
        /\ e.lambda_corr_slow = g.lambdaCorrSlow
        /\ FEq(e.fuel_pressure_kpa, F(g.fuelPKpa, 1))
        /\ FEq(e.dwell_ms, F(g.dwellTime, 1))
        /\ Within(e.voltage, g.voltageV, F(1, 10))
        /\ e.gear = g.gearNo
        /\ FEq(e.dbw_cmd, F(g.dbwCmdPos, 1))
        /\ Within(e.lambda2, g.lambda2Val, F(1, 128))
      [] id = 1 ->
        /\ e.flag_major = g.flagMajor /\ e.flag_minor = g.flagMinor
        /\ e.flag_notify = g.flagNotify /\ e.flag_notify2 = g.flagNotify2
        /\ e.flag_protection = g.flagProtection
        /\ Within(e.idle_pos, g.idlePosPercent, F(100, 256))
        /\ e.airflow = g.airflow
        /\ e.boost_duty = g.boostDuty /\ e.boost_target = g.boostTarget
      [] id = 2 ->
        /\ e.egr_pos = g.egrCurrPos /\ e.egr_target = g.egrTargetPos
        /\ e.inj_duty = g.injDutyCycle /\ e.inj_lag_time = g.injLagTime
        /\ e.inj_end_angle = g.injEndAngle4
        /\ e.fuel_press_coef = g.fuelPressCoef
        /\ e.air_charge_t = g.airChargeT
        /\ e.inj_air_charge_corr = g.injAirChargeCorr
        /\ e.speed2 = g.speed2
        /\ Within(e.back_pressure_kpa, g.backPKpa, F(2, 1))
      [] id = 3 ->
        /\ e.ign_accel_corr = g.ignAccelCorr
        /\ e.vvt1_curr = g.vvt1Curr /\ e.vvt1_target = g.vvt1Target
        /\ e.vvt2_curr = g.vvt2Curr /\ e.vvt2_target = g.vvt2Target
        /\ e.vvt1b_curr = g.vvt1bCurr /\ e.vvt2b_curr = g.vvt2bCurr
        /\ e.tcs_corr = g.tcsCorr
        /\ Within(e.pwm3d_target, g.pwm3dTarget, F(100, 256))
        /\ Within(e.pwm3d_curr, g.pwm3dCurr, F(100, 256))
      [] id = 4 ->
        /\ Within(e.trip_fuel_l, g.tripFuelL, F(1, 100))
        /\ Within(e.trip_path_km, g.tripPathKm, F(1, 10))
        /\ Within(e.curr_fuel_cons, g.currFuelCons, F(1, 10))
        /\ Within(e.trip_fuel_cons, g.tripFuelCons, F(1, 10))
        /\ Within(e.fuel_composition, g.fuelCompPct, F(100, 256))
      [] id = 5 ->
        /\ Within(Volts(e.adc_tps), g.adcTpsV, F(5, 256))
        /\ Within(Volts(e.adc_ct), g.adcCtV, F(5, 256))
        /\ Within(Volts(e.adc_iat), g.adcIatV, F(5, 256))
        /\ Within(Volts(e.adc_dbw1), g.dbwAdc1V, F(5, 256))
        /\ Within(Volts(e.adc_dbw2), g.dbwAdc2V, F(5, 256))
        /\ Within(Volts(e.adc_map), g.adcMapV, F(5, 256))
        /\ Within(Volts(e.adc_lambda), g.adcLambdaV, F(5, 256))
      [] id = 6 ->
        \A i \in 0..9 : Within(Volts(e.adc_an[i]), g.adcAn[i], F(5, 256))
      [] id = 7 ->
        /\ e.input_state = g.inputState /\ e.output_state = g.outputState
        /\ e.dbw_driver_status = g.dbwDriverStatus
        /\ e.dbw_system_status = g.dbwSystemStatus
        /\ e.gas_state = g.gasState /\ e.at_temp = g.atTemp
        /\ e.at_state = g.atState /\ e.fuel_level = g.fuelLevel
      [] id = 8 ->
        /\ FEq(e.clt, F(g.clt, 1)) /\ FEq(e.iat, F(g.iat, 1))
        /\ FEq(e.oil_temp, F(g.oilT, 1)) /\ FEq(e.fuel_temp, F(g.fuelT, 1))
        /\ FEq(e.egt1, F(g.egt1, 1)) /\ FEq(e.egt2, F(g.egt2, 1))
        /\ Within(e.oil_pressure, g.oilPBar, F(1, 10))
      [] id = 9 ->
        \A i \in 0..5 : Within(e.pwm_duty[i], g.pwmDuty[i], F(100, 256))
      [] OTHER -> TRUE

\* C5: once a frame of the emulator has been decoded, every fast field and
\* every field of the frame's slow variant is within half a scale step of the
\* engine-state value it was encoded from.
C5_RoundTripHalfScale ==
    (tx.kind = "emu" /\ tx.phase = "done") =>
        /\ FastRoundTrip(ecu_data, tx.eng)
        /\ SlowRoundTrip(ecu_data, tx.eng, tx.idx)

\* ---------------------------------------------------------------- claims, ring buffers
\* the number of slots between the consumer index and the producer index
Queued ==
    IF mode = "serial"
    THEN (uart_rx_head - uart_rx_tail) % UART_RX_BUF_SIZE
    ELSE (rx_head - rx_tail) % CAN_RX_BUF_SIZE

\* the consumer has taken an item out of the buffer and not yet passed it on
Held == IF cons.pc = "feed" THEN 1 ELSE 0

\* item number n as it arrived
Item(n) == IF mode = "serial" THEN StreamByte(n) ELSE BusFrame(n)

\* C6: in both ring buffers, under any interleaving of the producer interrupt
\* and the consumer loop, the items passed to the decoder are the items the
\* producer enqueued, in the same order and each once: the i-th delivered item
\* is the i-th accepted one, accepted items are distinct arrivals, and every
\* accepted item is delivered, held by the consumer or still queued.
C6_DeliveredIsAccepted ==
    /\ \A i \in 1..Len(delivered) : delivered[i] = Item(accepted[i])
    /\ \A i \in 1..(Len(accepted) - 1) : accepted[i] < accepted[i + 1]
    /\ \A i \in 1..Len(accepted) : accepted[i] < arrived
    /\ Len(delivered) + Held + Queued = Len(accepted)
    /\ cons.pc = "feed" => cons.item = Item(accepted[Len(delivered) + 1])

\* C6 witness: the serial buffer was filled, bytes were discarded for
\* overflow, and the consumer has drained all 255 accepted bytes.
C6_Witness ==
    /\ mode = "serial"
    /\ Len(accepted) < arrived
    /\ isr.pc = "idle"
    /\ Len(delivered) = UART_RX_BUF_SIZE - 1
    /\ Len(delivered) = Len(accepted)

\* advancing the producer index would make it equal to the consumer index
Full ==
    IF mode = "serial"
    THEN (uart_rx_head + 1) % UART_RX_BUF_SIZE = uart_rx_tail
    ELSE (rx_head + 1) % CAN_RX_BUF_SIZE = rx_tail

\* C7: when an item arrives at a full ring buffer, the producer interrupt
\* discards it: it ends at once, and the producer index, the consumer index,
\* every slot and the record of accepted items are unchanged.
C7_OverflowDiscards ==
    [][(isr.pc = "idle" /\ arrived' = arrived + 1 /\ Full) =>
          /\ UNCHANGED <<uartvars, canvars, accepted, delivered>>
          /\ isr' = IsrIdle]_vars

\* C7 witness: the bus buffer is full, a frame has been discarded, and the 31
\* frames queued before it are all still there.
C7_Witness ==
    /\ mode = "bus"
    /\ isr.pc = "idle"
    /\ Full
    /\ Len(accepted) < arrived
    /\ \A i \in 1..(CAN_RX_BUF_SIZE - 1) :
          rx_buf[(rx_tail + i - 1) % CAN_RX_BUF_SIZE]
              = BusFrame(accepted[Len(accepted) - (CAN_RX_BUF_SIZE - 1) + i])

\* C8: both indices of both ring buffers stay in [0, N-1], and the number of
\* queued items, which is (head - tail) mod N, never exceeds N-1, whatever
\* the relative speed of producer and consumer.
C8_IndicesInRange ==
    /\ uart_rx_head \in 0..(UART_RX_BUF_SIZE - 1)
    /\ uart_rx_tail \in 0..(UART_RX_BUF_SIZE - 1)
    /\ rx_head \in 0..(CAN_RX_BUF_SIZE - 1)
    /\ rx_tail \in 0..(CAN_RX_BUF_SIZE - 1)
    /\ Len(accepted) - (Len(delivered) + Held) = Queued
    /\ Len(accepted) - (Len(delivered) + Held)
          <= (IF mode = "serial" THEN UART_RX_BUF_SIZE ELSE CAN_RX_BUF_SIZE) - 1

\* C8 witness: the serial buffer holds 255 bytes while the consumer holds one
\* more that it has dequeued; both indices have wrapped or are about to.
C8_Witness ==
    /\ mode = "serial"
    /\ Queued = UART_RX_BUF_SIZE - 1
    /\ Held = 1
    /\ uart_rx_head = 0

\* ---------------------------------------------------------------- claims, bus decoder
\* the identifiers the bus decoder recognizes
RecognizedIds == {768, 770, 772, 773, 774, 775, 832}

\* a step that is one call of invent_ems_feed_can_frame
CanCall == frames' = frames + 1

\* C9: a call of invent_ems_feed_can_frame with an identifier outside
\* {0x300, 0x302, 0x304, 0x305, 0x306, 0x307, 0x340} returns false, whatever
\* the payload, and leaves the whole telemetry record (connected and both
\* counters included) and the new-data signal as they were.
C9_UnknownIdNoOp ==
    [][(CanCall /\ can_call'.id \notin RecognizedIds) =>
          /\ can_call'.ret = FALSE
          /\ ecu_data' = ecu_data
          /\ new_data_flag' = new_data_flag]_vars

\* C9 witness: after a recognized frame has set the record, a frame with the
\* unknown identifier 0x301 was refused and the record still shows the first.
C9_Witness ==
    /\ frames = 2
    /\ can_call.id = 769
    /\ can_call.ret = FALSE
    /\ ecu_data.connected
    /\ new_data_flag
    /\ FEq(ecu_data.egt1, F(-1, 10))

\* C10: a call of invent_ems_feed_can_frame with a recognized identifier
\* returns true, whatever the payload, sets connected and raises the new-data
\* signal.
C10_RecognizedIdSignals ==
    [][(CanCall /\ can_call'.id \in RecognizedIds) =>
          /\ can_call'.ret = TRUE
          /\ ecu_data'.connected = TRUE
          /\ new_data_flag' = TRUE]_vars

\* C10 witness: the first call after initialisation carried 0x340 with an
\* all-ones payload: it returned true, connected and new-data are set, and
\* the speed is 6553.5.
C10_Witness ==
    /\ frames = 1
    /\ can_call.id = 832
    /\ can_call.ret = TRUE
    /\ ecu_data.connected
    /\ new_data_flag
    /\ FEq(ecu_data.speed, F(65535, 10))
    /\ ecu_data.packet_count = 0

\* ---------------------------------------------------------------- claims, new-data query
\* this step is one call of invent_ems_has_new_data
QueryCall == poll'.seq # poll.seq

\* C11: a call of invent_ems_has_new_data returns true exactly when a frame
\* was accepted since the previous call (or since initialisation, when there
\* was no previous call), it leaves the signal cleared, and it touches nothing
\* else of the decoder; so the first call after an acceptance returns true and
\* every further call without an acceptance in between returns false.
C11_OneShotQuery ==
    [][QueryCall =>
          /\ poll'.ret = poll.unread
          /\ new_data_flag' = FALSE
          /\ UNCHANGED <<rxstate, rxbuf, rxptr, ecu_data>>]_vars

\* a frame was accepted, and two calls were made after it: the last returned
\* false
C11_Witness ==
    /\ ecu_data.packet_count = 1
    /\ ~poll.unread
    /\ ~new_data_flag
    /\ poll.seq = 0
    /\ ~poll.ret

\* ---------------------------------------------------------------- claims, framing
\* the byte each of WAIT_SYNC_1 .. WAIT_VERSION waits for
Expected ==
    [s \in WAIT_SYNC_1..WAIT_VERSION |->
        CASE s = WAIT_SYNC_1 -> HEADER_1
          [] s = WAIT_SYNC_2 -> HEADER_2
          [] s = WAIT_SYNC_3 -> HEADER_3
          [] OTHER -> INVENT_EMS_PROTOCOL_VER]

\* this step feeds, in one of WAIT_SYNC_1 .. WAIT_VERSION, a byte other than
\* the expected one
MismatchStep ==
    /\ FeedStep
    /\ rxstate \in WAIT_SYNC_1..WAIT_VERSION
    /\ Head(wire) # Expected[rxstate]

\* C12: in WAIT_SYNC_1, WAIT_SYNC_2, WAIT_SYNC_3 and WAIT_VERSION a byte other
\* than the expected one is re-evaluated in WAIT_SYNC_0 within the same call:
\* the call ends in WAIT_SYNC_1 when the byte is 0x55 and in WAIT_SYNC_0
\* otherwise, and neither counter, nor any other part of the record or the
\* new-data signal, changes.
C12_MismatchReevaluated ==
    [][MismatchStep =>
          /\ rxstate' = IF Head(wire) = HEADER_0
                        THEN WAIT_SYNC_1 ELSE WAIT_SYNC_0
          /\ ecu_data'.packet_count = ecu_data.packet_count
          /\ ecu_data'.error_count = ecu_data.error_count
          /\ UNCHANGED <<ecu_data, new_data_flag>>]_vars

\* 0x55 arrived in WAIT_VERSION, where 0x54 was expected, and the call ended
\* in WAIT_SYNC_1
C12_Witness ==
    /\ tx.kind = "noise"
    /\ tx.st0 = WAIT_VERSION
    /\ tx.phase = "done"
    /\ wire = <<>>
    /\ rxstate = WAIT_SYNC_1

\* this step feeds a byte in WAIT_LENGTH
LengthStep == FeedStep /\ rxstate = WAIT_LENGTH

\* the byte is a frame length the decoder takes
InRange(b) == b >= MIN_PACKET_LEN /\ b <= MAX_PACKET_LEN

\* C13: a byte outside [4,48] received in WAIT_LENGTH is re-examined in
\* WAIT_SYNC_0 within the same call, as in the sync states: the call ends in
\* WAIT_SYNC_1 when that byte is 0x55, and in WAIT_SYNC_0 otherwise.
C13_LengthDesyncReevaluated ==
    [][(LengthStep /\ ~InRange(Head(wire))) =>
          rxstate' = IF Head(wire) = HEADER_0
                     THEN WAIT_SYNC_1 ELSE WAIT_SYNC_0]_vars

\* C14: in WAIT_LENGTH a byte below 4 or above 48 sends the decoder to
\* WAIT_SYNC_0 and changes nothing else: not the buffer, not the counters,
\* no telemetry field, not the new-data signal. A byte in [4,48] is stored at
\* buffer index 0, the decoder enters ACCUMULATE_PAYLOAD with a count of 1,
\* and the rest of the buffer, the record and the signal stay as they were.
C14_LengthByte ==
    [][LengthStep =>
          IF InRange(Head(wire))
          THEN /\ rxstate' = ACCUMULATE_PAYLOAD
               /\ rxptr' = 1
               /\ rxbuf' = [rxbuf EXCEPT ![0] = Head(wire)]
               /\ UNCHANGED <<ecu_data, new_data_flag>>
          ELSE /\ rxstate' = WAIT_SYNC_0
               /\ UNCHANGED <<rxbuf, rxptr, ecu_data, new_data_flag>>]_vars

\* a frame of length 48 was taken, and later a byte outside [4,48] arrived in
\* WAIT_LENGTH: the decoder is in WAIT_SYNC_0 and the buffer still holds 48
C14_Witness ==
    /\ tx.kind = "noise"
    /\ tx.st0 = WAIT_LENGTH
    /\ tx.phase = "done"
    /\ wire = <<>>
    /\ rxstate = WAIT_SYNC_0
    /\ rxbuf[0] = MAX_PACKET_LEN
    /\ ecu_data.packet_count = 1

\* the 16-bit accumulator after one byte: d ^= low byte of acc; d ^= (d << 4)
\* truncated to 8 bits; t = (d << 8) | high byte of acc; t ^= (d >> 4);
\* t ^= (d << 3)
AccStep(acc, byte) ==
    LET d1 == Xor(byte, acc % 256)
        d2 == Xor(d1, (d1 * 16) % 256)
        t1 == (d2 * 256) + (acc \div 256)
        t2 == Xor(t1, d2 \div 16)
    IN  Xor(t2, d2 * 8)

\* the accumulator, started at 0xFFFF, after the bytes of indices 0..n of b
RECURSIVE AccOver(_, _)
AccOver(b, n) ==
    IF n < 0 THEN 65535
    ELSE LET a == AccOver(b, n - 1) IN IF a >= 0 THEN AccStep(a, b[n]) ELSE a

\* C15: once a length byte L in [4,48] is taken, the decoder accumulates the
\* following bytes, whatever their values, at indices 1, 2, ... and the frame
\* completes on exactly the L-th of them: before it the decoder stays in
\* ACCUMULATE_PAYLOAD and no counter moves; on it the decoder returns to
\* WAIT_SYNC_0, and the frame is counted as decoded exactly when the bytes at
\* indices L-1 (low) and L (high) equal the accumulator over indices 0..L-2,
\* and as an error otherwise.
C15_FrameBoundary ==
    [][(FeedStep /\ rxstate = ACCUMULATE_PAYLOAD) =>
          LET L == rxbuf[0] IN
          /\ InRange(L)
          /\ rxptr \in 1..L
          /\ rxbuf' = Stored
          /\ IF rxptr < L
             THEN /\ rxstate' = ACCUMULATE_PAYLOAD
                  /\ rxptr' = rxptr + 1
                  /\ UNCHANGED <<ecu_data, new_data_flag>>
             ELSE /\ rxstate' = WAIT_SYNC_0
                  /\ IF AccOver(Stored, L - 2)
                          = Stored[L - 1] + (256 * Stored[L])
                     THEN /\ ecu_data'.packet_count
                              = ecu_data.packet_count + 1
                          /\ ecu_data'.error_count = ecu_data.error_count
                     ELSE /\ ecu_data'.error_count
                              = ecu_data.error_count + 1
                          /\ ecu_data'.packet_count
                              = ecu_data.packet_count]_vars

\* the sync pattern, the version and the length 48 arrived as single bytes,
\* and the 48 bytes that followed, the first bytes of a frame, were taken as
\* payload whatever their values: the 48-th completed the frame
C15_Witness ==
    /\ tx.kind = "frame"
    /\ tx.st0 = ACCUMULATE_PAYLOAD
    /\ rxbuf[0] = MAX_PACKET_LEN
    /\ rxbuf[1] = HEADER_0
    /\ rxptr = MAX_PACKET_LEN + 1
    /\ rxstate = WAIT_SYNC_0
    /\ ecu_data.error_count = tx.err0 + 1

\* ---------------------------------------------------------------- claims, checksum
\* the buffer b with every byte after index n replaced by another value
Elsewhere(b, n) == [i \in DOMAIN b |-> IF i <= n THEN b[i] ELSE 255 - b[i]]

\* C16: for a buffer whose length byte L is in [4,48], checksum returns the
\* 16-bit accumulator that starts at 0xFFFF and takes the bytes of indices
\* 0..L-2 in order, each by the step AccStep; the bytes after index L-2 have
\* no part in the result.
C16_ChecksumAlgorithm ==
    (crc_call.rx_done /\ InRange(crc_call.buf[0])) =>
        LET b == crc_call.buf
            L == b[0]
        IN  /\ crc_call.rx = AccOver(b, L - 2)
            /\ crc_call.rx \in 0..65535
            /\ checksum(Elsewhere(b, L - 2)) = crc_call.rx

\* checksum was called on a buffer of the longest frame, with bytes that are
\* not all zero
C16_Witness ==
    /\ crc_call.rx_done
    /\ crc_call.buf[0] = MAX_PACKET_LEN
    /\ crc_call.buf[1] # 0
    /\ crc_call.rx = AccOver(crc_call.buf, MAX_PACKET_LEN - 2)

\* both functions were called on the buffer
BothCalled == crc_call.rx_done /\ crc_call.emu_done

BuildAndSendStep == frames' # frames \/ slowPacketIndex' # slowPacketIndex

\* the position, on the line, of the byte SlowPacketId of a frame
SlowIdPos == 5 + SLOW_PACKET_OFFSET

\* C18: slowPacketIndex is in 0..9 in every state; every run of buildAndSend
\* advances it by one modulo 10; the frame put on the line carries the index
\* as it was before the advance, which is one more, modulo 10, than the index
\* carried by the frame emitted before it.
C18_SlowIndexCycles ==
    /\ [](slowPacketIndex \in 0..(TOTAL_SLOW_PACKETS - 1))
    /\ [][BuildAndSendStep =>
             /\ slowPacketIndex' = (slowPacketIndex + 1) % TOTAL_SLOW_PACKETS
             /\ frames' # frames =>
                   /\ wire'[SlowIdPos] = slowPacketIndex
                   /\ tx'.idx = slowPacketIndex
                   /\ tx.kind = "emu" =>
                         wire'[SlowIdPos] = (tx.idx + 1) % TOTAL_SLOW_PACKETS]_vars

\* the decoder holds a frame of index 9, and the next frame, on the line,
\* carries index 0
C18_Witness ==
    /\ tx.kind = "emu"
    /\ frames = 2
    /\ Len(wire) = 5 + SIZEOF_TInfoPacket + 2
    /\ wire[SlowIdPos] = 0
    /\ rxbuf[SLOW_PACKET_OFFSET - 1] = TOTAL_SLOW_PACKETS - 1
    /\ ecu_data.packet_count = 1
    /\ slowPacketIndex = 1

\* ---------------------------------------------------------------- claims, execution contexts
\* The contexts of a build: the producer interrupt, whose position is isr; the
\* loop that drains the ring buffer, whose position is cons (main's
\* super-loop on core 0 in the serial build, core1_entry's loop on core 1 in
\* the bus build); and, in the bus build, main's super-loop on core 0, which
\* moves neither.
InterruptStep == isr' # isr
DrainLoopStep == cons' # cons

\* the serial decoder's framing state
FramingState == <<rxstate, rxbuf, rxptr>>

\* C19: the telemetry record is written by one context only, the loop that
\* drains the ring buffer, at the statement that feeds the decoder: with
\* invent_ems_feed_byte from main's loop in the serial build, with
\* invent_ems_feed_can_frame from core1_entry's loop in the bus build; never
\* by a step of the producer interrupt, nor by main's loop in the bus build.
\* The framing state changes only at that same statement of the serial
\* build, and never in the bus build.
C19_SingleWriter ==
    [][/\ (ecu_data' # ecu_data \/ FramingState' # FramingState) =>
             /\ DrainLoopStep
             /\ ~InterruptStep
             /\ cons.pc = "feed"
             /\ mode = "serial" =>
                   /\ ecu_data' = feed_byte(Dec, cons.item).ecu_data
                   /\ rxstate' = feed_byte(Dec, cons.item).rxstate
             /\ mode = "bus" =>
                   ecu_data' = feed_can_frame(Dec, cons.item.id,
                                              cons.item.data).st.ecu_data
       /\ mode = "bus" => UNCHANGED FramingState]_vars

\* serial build: the record has been written for two frames, and the producer
\* interrupt is part-way through storing a byte
C19_Witness ==
    /\ mode = "serial"
    /\ ecu_data.packet_count = 2
    /\ ecu_data.connected
    /\ isr.pc = "publish"
    /\ cons.pc = "feed"

\* this step belongs to the producer interrupt: uart0_irq_handler in the
\* serial build, can_rx_cb in the bus build
ProducerStep ==
    cons.pc # "boot" /\ (isr' # isr \/ arrived' = arrived + 1)

\* this step is a statement of the consumer's dequeue: the loop test, the
\* read of the slot at the consumer index, the advance of the consumer index
DequeueStep ==
    /\ DrainLoopStep
    /\ cons.pc \in {"snapshot", "test", "load", "advance", "recv", "copy"}

\* every slot of both buffers but slot h of the serial one and slot c of
\* the bus one is unchanged
OnlySlots(h, c) ==
    /\ \A i \in DOMAIN uart_rx_buf : i # h => uart_rx_buf'[i] = uart_rx_buf[i]
    /\ \A i \in DOMAIN rx_buf : i # c => rx_buf'[i] = rx_buf[i]

\* C20: a step of the producer interrupt changes at most the slot at the
\* producer index and the producer index; it leaves the consumer index, the
\* decoder state, the telemetry record and the new-data signal alone. A step
\* of the consumer's dequeue changes at most the consumer index; it leaves
\* the producer index and every slot alone, and the decoder as well.
C20_IndexOwnership ==
    [][/\ ProducerStep =>
             /\ UNCHANGED <<uart_rx_tail, rx_tail>>
             /\ UNCHANGED <<rxstate, rxbuf, rxptr, ecu_data, new_data_flag>>
             /\ OnlySlots(uart_rx_head, rx_head)
             /\ uart_rx_head' # uart_rx_head
                   => uart_rx_head' = uart_head_next(uart_rx_head)
             /\ rx_head' # rx_head => rx_head' = can_head_next(rx_head)
       /\ DequeueStep =>
             /\ UNCHANGED <<uart_rx_head, rx_head, uart_rx_buf, rx_buf>>
             /\ UNCHANGED <<rxstate, rxbuf, rxptr, ecu_data, new_data_flag>>]_vars

\* bus build: the interrupt has stored a frame at the producer index and not
\* yet advanced it, while the consumer has advanced its index and still holds
\* the frame it took out
C20_Witness ==
    /\ mode = "bus"
    /\ isr.pc = "publish"
    /\ rx_buf[rx_head] = isr.item
    /\ cons.pc = "feed"
    /\ rx_tail # 0
    /\ rx_head # rx_tail

\* ---------------------------------------------------------------- claims, slots
\* the producer index, the consumer index, the size and the slots of the
\* buffer of the build
HeadIx == IF mode = "serial" THEN uart_rx_head ELSE rx_head
TailIx == IF mode = "serial" THEN uart_rx_tail ELSE rx_tail
Size == IF mode = "serial" THEN UART_RX_BUF_SIZE ELSE CAN_RX_BUF_SIZE
Slot(i) == IF mode = "serial" THEN uart_rx_buf[i] ELSE rx_buf[i]

\* the indices of the slots the consumer is reading or has yet to read
ToRead == {(TailIx + i) % Size : i \in 0..(Queued - 1)}

\* the producer is between its room test and the advance of its index
Writing == isr.pc \in {"store", "memcpy", "publish"}

\* the consumer is about to read the slot at its index
Reading == cons.pc \in {"load", "copy"}

\* C21: at every statement boundary of every interleaving, the slot the
\* producer writes, the one at the producer index, is none of the slots the
\* consumer is reading or has yet to read; when the consumer reads a slot
\* there is one to read; and each of those slots holds, complete, the item
\* that was accepted into it: the slots from the consumer index to the
\* producer index hold the accepted items not yet taken out, in order. The
\* producer index moves only at the last statement of the interrupt, after
\* the slot is written.
C21_SlotExclusion ==
    /\ HeadIx \notin ToRead
    /\ Reading => TailIx \in ToRead
    /\ Writing =>
          /\ isr.next = (HeadIx + 1) % Size
          /\ isr.next # TailIx
    /\ \A i \in 0..(Queued - 1) :
          Slot((TailIx + i) % Size)
              = Item(accepted[Len(delivered) + Held + i + 1])
    /\ isr.pc = "publish" => Slot(HeadIx) = isr.item

\* bus build: the interrupt has written the identifier of a frame into the
\* slot at the producer index and not yet its payload, while the consumer is
\* about to copy a slot out and another one waits behind it
C21_Witness ==
    /\ mode = "bus"
    /\ isr.pc = "memcpy"
    /\ rx_buf[rx_head].id = isr.item.id
    /\ rx_buf[rx_head].data # isr.item.data
    /\ cons.pc = "copy"
    /\ Queued >= 2
    /\ Len(delivered) >= 1

\* ---------------------------------------------------------------- claims, drain
\* every accepted item has been passed to the decoder
Drained == Len(delivered) = Len(accepted)

\* C22: while the draining loop keeps running, every item the producer
\* accepted is eventually passed to the decoder, whether or not later items
\* were discarded: the list of accepted items only grows, and again and
\* again the loop reaches a point where all of it has been delivered.
C22_EventualDrain ==
    /\ [][/\ Len(accepted') >= Len(accepted)
          /\ SubSeq(accepted', 1, Len(accepted)) = accepted
          /\ Len(delivered') >= Len(delivered)
          /\ SubSeq(delivered', 1, Len(delivered)) = delivered]_vars
    /\ []<>Drained

\* bus build: frames were discarded at a full buffer, and every frame accepted
\* before and after that has been passed to the decoder
C22_Witness ==
    /\ mode = "bus"
    /\ Len(accepted) < arrived
    /\ Len(accepted) >= CAN_RX_BUF_SIZE
    /\ Drained
    /\ cons.pc = "recv"

\* ---------------------------------------------------------------- claims, telemetry record
\* the fields of invent_ems_data_t, by the group the header puts them in
FastFields ==
    {"rpm", "ign_angle", "inj_time_ms", "tps", "dbw_pos", "map_kpa", "lambda",
     "speed", "fuel_flow", "knock_v", "transient_corr", "runlevel", "cyl_no"}

SlowFields(k) ==
    CASE k = 0 -> {"corr_angle", "lambda_target", "lambda_corr_fast",
                   "lambda_corr_slow", "fuel_pressure_kpa", "dwell_ms",
                   "voltage", "gear", "dbw_cmd", "lambda2"}
      [] k = 1 -> {"flag_major", "flag_minor", "flag_notify", "flag_notify2",
                   "flag_protection", "idle_pos", "airflow", "boost_duty",
                   "boost_target"}
      [] k = 2 -> {"egr_pos", "egr_target", "inj_duty", "inj_lag_time",
                   "inj_end_angle", "fuel_press_coef", "air_charge_t",
                   "inj_air_charge_corr", "speed2", "back_pressure_kpa"}
      [] k = 3 -> {"ign_accel_corr", "vvt1_curr", "vvt1_target", "vvt2_curr",
                   "vvt2_target", "vvt1b_curr", "vvt2b_curr", "tcs_corr",
                   "pwm3d_target", "pwm3d_curr"}
      [] k = 4 -> {"trip_fuel_l", "trip_path_km", "curr_fuel_cons",
                   "trip_fuel_cons", "fuel_composition"}
      [] k = 5 -> {"adc_tps", "adc_ct", "adc_iat", "adc_dbw1", "adc_dbw2",
                   "adc_map", "adc_lambda"}
      [] k = 6 -> {"adc_an"}
      [] k = 7 -> {"input_state", "output_state", "dbw_driver_status",
                   "dbw_system_status", "gas_state", "at_temp", "at_state",
                   "fuel_level"}
      [] k = 8 -> {"clt", "iat", "oil_temp", "fuel_temp", "egt1", "egt2",
                   "oil_pressure"}
      [] OTHER -> {"pwm_duty"}

Variants == 0..(SLOW_PACKET_COUNT - 1)
StatusFields == {"connected", "packet_count", "error_count"}
NumericFields == FastFields \cup UNION {SlowFields(k) : k \in Variants}

\* the fields declared float (pwm_duty is an array of six)
FloatFields ==
    {"rpm", "ign_angle", "inj_time_ms", "tps", "dbw_pos", "map_kpa", "lambda",
     "speed", "fuel_flow", "knock_v", "lambda_target", "fuel_pressure_kpa",
     "dwell_ms", "voltage", "dbw_cmd", "lambda2", "idle_pos",
     "back_pressure_kpa", "pwm3d_target", "pwm3d_curr", "trip_fuel_l",
     "trip_path_km", "curr_fuel_cons", "trip_fuel_cons", "fuel_composition",
     "clt", "iat", "oil_temp", "fuel_temp", "egt1", "egt2", "oil_pressure",
     "pwm_duty"}

\* field f of the record e holds not-a-number; an integer field never does
HoldsNaN(e, f) ==
    /\ f \in FloatFields
    /\ IF f = "pwm_duty" THEN \A i \in 0..5 : IsNaN(e[f][i])
       ELSE IsNaN(e[f])

\* the slow indices of the emulator frames the decoder has accepted: all the
\* frames emitted, but the one still on the line
AcceptedVariants ==
    IF tx.kind # "emu" THEN {}
    ELSE {(tx.idx + TOTAL_SLOW_PACKETS - j) % TOTAL_SLOW_PACKETS :
             j \in (IF tx.phase = "done" THEN 0 ELSE 1)..(frames - 1)}

\* an accepted frame has written field f
Written(f) ==
    \/ f \in FastFields /\ ecu_data.packet_count > 0
    \/ \E k \in AcceptedVariants : f \in SlowFields(k)

\* C23 as stated: as long as no frame that writes it has been accepted,
\* every numeric field holds the not-a-number sentinel.
C23_AllNumericSentinel ==
    \A f \in NumericFields : ~Written(f) => HoldsNaN(ecu_data, f)

\* C23 amended: every float field holds not-a-number exactly as long as no
\* accepted frame has written it, so a float that is not not-a-number was
\* decoded from a frame; every integer field holds 0 until a frame writes it,
\* a value that a frame can write as well.
C23_FloatSentinel ==
    /\ \A f \in FloatFields : HoldsNaN(ecu_data, f) <=> ~Written(f)
    /\ \A f \in (NumericFields \ FloatFields) \ {"adc_an"} :
          ~Written(f) => ecu_data[f] = 0
    /\ ~Written("adc_an") => \A i \in 0..9 : ecu_data.adc_an[i] = 0
    /\ ecu_data.packet_count = frames - (IF tx.phase = "done" THEN 0 ELSE 1)

\* two frames were accepted, of the variants 8 and 9: the temperatures and
\* the PWM duties are numbers, the voltage of variant 0 is still not-a-number
C23_Witness ==
    /\ tx.kind = "emu" /\ tx.phase = "done"
    /\ AcceptedVariants = {8, 9}
    /\ ~IsNaN(ecu_data.clt)
    /\ ~IsNaN(ecu_data.pwm_duty[5])
    /\ ~IsNaN(ecu_data.rpm)
    /\ IsNaN(ecu_data.voltage)
    /\ ecu_data.gear = 0

\* the call of invent_ems_feed_byte that accepts a frame, and the slow index
\* the frame carries
AcceptStep == ecu_data'.packet_count # ecu_data.packet_count
slow_id == rxbuf[24]

\* C24: the call that accepts a frame of slow index k in 0..9 leaves every
\* field of the nine other variants, and error_count, at its value; it sets
\* connected and the new-data flag and counts the frame.
C24_OnlyVariantK ==
    [][AcceptStep /\ slow_id' \in Variants =>
          /\ \A j \in Variants \ {slow_id'} :
                \A f \in SlowFields(j) : ecu_data'[f] = ecu_data[f]
          /\ ecu_data'.error_count = ecu_data.error_count
          /\ ecu_data'.connected
          /\ ecu_data'.packet_count = ecu_data.packet_count + 1
          /\ new_data_flag']_vars

\* the frames of the variants 0 and 1 were accepted: the flags of variant 1
\* are set and the voltage and the dwell of variant 0 are as the first frame
\* left them
C24_Witness ==
    /\ tx.kind = "emu" /\ tx.phase = "done"
    /\ ecu_data.packet_count = 2
    /\ slow_id = 1
    /\ AcceptedVariants = {0, 1}
    /\ ~IsNaN(ecu_data.voltage)
    /\ ~IsNaN(ecu_data.idle_pos)
    /\ ~IsNaN(ecu_data.dwell_ms)

\* ---------------------------------------------------------------- claims, resynchronization
\* the decoder state after the calls invent_ems_feed_byte(bytes[1]), ...,
\* the first half of the bytes and then the second
RECURSIVE feed_bytes(_, _)
feed_bytes(st, bytes) ==
    LET n == Len(bytes)
        half == n \div 2
        s1 == feed_bytes(st, SubSeq(bytes, 1, half))
    IN  IF n = 0 THEN st
        ELSE IF n = 1 THEN feed_byte(st, bytes[1])
        ELSE IF s1.rxstate \in WAIT_SYNC_0..255
             THEN feed_bytes(s1, SubSeq(bytes, half + 1, n))
             ELSE s1

\* 48 bytes of value 0xFF
Flush == [i \in 1..48 |-> 255]
\* C25: whatever was fed before, the decoder is in one of the seven states
\* WAIT_SYNC_0..ACCUMULATE_PAYLOAD; 48 further bytes 0xFF leave it in
\* WAIT_SYNC_0; and a valid frame fed after them is accepted.
C25_NoTrapState ==
    LET Flushed == feed_bytes(Dec, Flush)
        Resumed == feed_bytes(Flushed, StreamFrame)
    IN  /\ rxstate \in WAIT_SYNC_0..ACCUMULATE_PAYLOAD
        /\ Flushed.rxstate = WAIT_SYNC_0
        /\ Resumed.rxstate = WAIT_SYNC_0
        /\ Resumed.ecu_data.packet_count = Flushed.ecu_data.packet_count + 1
        /\ Resumed.ecu_data.error_count = Flushed.ecu_data.error_count
        /\ Resumed.new_data_flag

\* the decoder has just taken the longest length after a rejected frame and
\* a stray byte: all 48 bytes are needed to get back to WAIT_SYNC_0
C25_Witness ==
    /\ rxstate = ACCUMULATE_PAYLOAD
    /\ rxbuf[0] = MAX_PACKET_LEN
    /\ rxptr = 1
    /\ ecu_data.error_count > 0
    /\ noise > 0
    /\ feed_bytes(Dec, SubSeq(Flush, 1, Len(Flush) - 1)).rxstate
           = ACCUMULATE_PAYLOAD

\* ---------------------------------------------------------------- claims, counters
\* the changes of the two counters in this step, and the outcome of the
\* checksum comparison on the buffer the step leaves
Counted == ecu_data'.packet_count - ecu_data.packet_count
Failed == ecu_data'.error_count - ecu_data.error_count
Matches ==
    checksum(rxbuf') = rxbuf'[rxptr' - 2] + (256 * rxbuf'[rxptr' - 1])

\* C26: one call of invent_ems_feed_byte raises packet_count and error_count
\* together by at most 1, and only with the byte that completes a frame:
\* packet_count if the checksum matches, error_count if it does not; a byte
\* taken in a sync, version or length state changes neither.
C26_CounterDiscipline ==
    [][FeedStep =>
          /\ Counted \in {0, 1}
          /\ Failed \in {0, 1}
          /\ Counted + Failed <= 1
          /\ Counted + Failed = 1 <=> Completes
          /\ Completes => /\ Counted = 1 <=> Matches
                          /\ Failed = 1 <=> ~Matches
          /\ rxstate # ACCUMULATE_PAYLOAD => Counted = 0 /\ Failed = 0]_vars

\* a rejected frame and an accepted one, each counted once, with stray bytes
\* taken in the sync states in between
C26_Witness ==
    /\ ecu_data.packet_count = 1
    /\ ecu_data.error_count = 1
    /\ noise >= 2
    /\ tx.kind = "noise" /\ tx.phase = "done"
    /\ rxstate = WAIT_SYNC_2

\* ---------------------------------------------------------------- bus build, the record shared by the two cores
\* Core 1 stores into ecu_data inside invent_ems_feed_can_frame while core 0
\* loads from it inside dashboard_update_cb. ecu_data is not volatile and the
\* cores use no lock and no barrier, so the stores of one call, and the
\* loads of one callback, may take effect in any order; each of them is one
\* aligned word or byte and takes effect at once.

\* the members the case of identifier id stores
CanStores(id) ==
    CASE id = 768 -> {"rpm", "tps", "map_kpa", "iat"}
      [] id = 770 -> {"ign_angle", "dwell_ms", "inj_time_ms"}
      [] id = 772 -> {"oil_temp", "oil_pressure", "clt", "voltage"}
      [] id = 773 -> {"gear", "speed"}
      [] id = 774 -> {"knock_v", "fuel_pressure_kpa", "fuel_temp"}
      [] id = 775 -> {"egt1", "egt2"}
      [] id = 832 -> {"speed"}
      [] OTHER -> {}

\* the members dashboard_update_cb loads
Loads == {"oil_pressure", "clt", "oil_temp"}

\* a store that takes effect in two halves
store_torn(e, f, v) ==
    IF f \in FloatFields THEN [e EXCEPT ![f] = <<v[1], @[2]>>]
    ELSE [e EXCEPT ![f] = v]

\* ecu_data.f = v;
store(e, f, v) == [e EXCEPT ![f] = v]

\* the identifiers of the frames core 1 takes from the queue: the one that
\* carries the members the callback loads, and one that
\* invent_ems_feed_can_frame does not know
ShareIds == {772, 769}

\* core1_entry: invent_ems_feed_can_frame(frame.id, frame.data, frame.dlc)
\* is entered
core1_entry_call(id, d) ==
    /\ mode = "bus"
    /\ core1.pc = "idle"
    /\ frames < MaxFrames
    /\ frames' = frames + 1
    /\ delivered' = Append(delivered, [id |-> id, dlc |-> 8, data |-> d])
    /\ core1' = IF id \in CanIds
                THEN [pc |-> "stores", id |-> id, d |-> d,
                      todo |-> CanStores(id)
                                 \cup {"connected", "new_data_flag"}]
                ELSE Core1Idle
    /\ UNCHANGED <<cbus, shown, crc_call, poll, can_call, decvars, wire, tx, noise,
                   emuvars, mode, uartvars, canvars, ecu_data_ready, isr,
                   cons, arrived, irqs, accepted>>

\* one of the stores of the call takes effect
core1_entry_store(f) ==
    /\ core1.pc = "stores"
    /\ f \in core1.todo
    /\ new_data_flag' = IF f = "new_data_flag" THEN TRUE ELSE new_data_flag
    /\ ecu_data' =
          IF f = "new_data_flag" THEN ecu_data
          ELSE IF f = "connected" THEN store(ecu_data, f, TRUE)
          ELSE store(ecu_data, f, can_fields(ecu_data, core1.id, core1.d)[f])
    /\ core1' = IF core1.todo = {f} THEN Core1Idle
                ELSE [core1 EXCEPT !.todo = @ \ {f}]
    /\ UNCHANGED <<cbus, shown, crc_call, poll, can_call, rxstate, rxbuf, rxptr,
                   wire, tx, noise, frames, emuvars, ringvars>>

\* main: if (invent_ems_has_new_data()) ecu_data_ready = true;
main_poll ==
    /\ mode = "bus"
    /\ shown.pc = "idle"
    /\ LET r == has_new_data(Dec) IN
       /\ SetDec(r.st)
       /\ ecu_data_ready' = (ecu_data_ready \/ r.ret)
    /\ UNCHANGED <<cbus, core1, shown, crc_call, poll, can_call, wire, tx, noise,
                   frames, emuvars, mode, uartvars, canvars, isr, cons,
                   arrived, irqs, accepted, delivered>>

\* dashboard_update_cb: if (!ecu_data_ready) return; ecu_data_ready = false;
dashboard_update_cb_enter ==
    /\ mode = "bus"
    /\ shown.pc = "idle"
    /\ ecu_data_ready
    /\ ecu_data_ready' = FALSE
    /\ shown' = [shown EXCEPT !.pc = "loads", !.todo = Loads, !.got = {}]
    /\ UNCHANGED <<cbus, core1, crc_call, poll, can_call, decvars, wire, tx, noise,
                   frames, emuvars, mode, uartvars, canvars, isr, cons,
                   arrived, irqs, accepted, delivered>>

\* dashboard_update_cb: one of ecu->oil_pressure, ecu->clt, ecu->oil_temp is
\* loaded
dashboard_update_cb_load(f) ==
    /\ shown.pc = "loads"
    /\ f \in shown.todo
    /\ shown' = [shown EXCEPT ![f] = ecu_data[f],
                              !.todo = @ \ {f},
                              !.got = @ \cup {f},
                              !.pc = IF shown.todo = {f} THEN "idle"
                                     ELSE "loads"]
    /\ UNCHANGED <<cbus, core1, crc_call, poll, can_call, decvars, wire, tx, noise,
                   frames, emuvars, ringvars>>

InitShare == InitCanDec

NextShare ==
    \/ \E id \in ShareIds, d \in Payloads : core1_entry_call(id, d)
    \/ \E f \in CanStores(core1.id) \cup {"connected", "new_data_flag"} :
          core1_entry_store(f)
    \/ main_poll
    \/ dashboard_update_cb_enter
    \/ \E f \in Loads : dashboard_update_cb_load(f)

SpecShare == InitShare /\ [][NextShare]_vars

\* ---------------------------------------------------------------- claims, shared record
\* the value frame number i of those handed to the decoder gives member f
FrameValue(i, f) ==
    can_fields(InitData, delivered[i].id, delivered[i].data)[f]

\* v is the initial value of member f or the value one frame gave it
InitialOrDecoded(f, v) ==
    \/ v = InitData[f]
    \/ \E i \in 1..Len(delivered) :
          f \in CanStores(delivered[i].id) /\ v = FrameValue(i, f)

\* C27: whenever core 0 loads a member of the record, also while core 1 is
\* part-way through a frame, the value is the initial one or one that a
\* single decoded frame gave that member; the same holds of every member of
\* the record at any time.
C27_NoTornField ==
    /\ \A f \in Loads : InitialOrDecoded(f, shown[f])
    /\ \A f \in NumericFields : InitialOrDecoded(f, ecu_data[f])

\* the callback has loaded its three members while core 1 had stored only
\* the first member of the second frame 0x304: the oil temperature is that
\* of the second frame, the oil pressure and the coolant temperature are
\* those of the first
C27_Witness ==
    /\ Len(delivered) = 2
    /\ delivered[1].id = 772 /\ delivered[2].id = 772
    /\ core1.pc = "stores"
    /\ core1.todo = {"oil_pressure", "clt", "voltage", "connected",
                     "new_data_flag"}
    /\ shown.pc = "idle" /\ shown.got = Loads
    /\ shown.oil_temp = FrameValue(2, "oil_temp")
    /\ shown.oil_temp # FrameValue(1, "oil_temp")
    /\ shown.clt = FrameValue(1, "clt")
    /\ shown.clt # FrameValue(2, "clt")
    /\ shown.oil_pressure = FrameValue(1, "oil_pressure")
    /\ shown.oil_pressure # FrameValue(2, "oil_pressure")

\* ---------------------------------------------------------------- claims, emulator commands
\* this step is one iteration of the emulator's main loop that follows
\* another one; tx.eng is the engine state the frame before was built from,
\* so a member of eng that differs from it was set by the command taken
\* since, and tx'.eng is the engine state after this iteration's
\* simulateEngine, the one its frame is built from
LaterIteration == frames' = frames + 1 /\ tx.kind = "emu"
SetByCommand(f) == eng[f] # tx.eng[f]

\* C28: a member of the engine state set by a command name=value is left at
\* that value by the next simulateEngine step, whichever member it is, and
\* the frame built after that step carries it.
C28_OverridePinned ==
    [][LaterIteration =>
          \A f \in DOMAIN eng : SetByCommand(f) => tx'.eng[f] = eng[f]]_vars

\* ---------------------------------------------------------------- fast channels, every period
\* parse_packet applied to a frame buffer whose period field holds any of
\* the 65536 values; the other bytes of the buffer are 0, the length is that
\* of the emulator's frames

\* rxbuf as the accepted frame left it, the period bytes being lo and hi
PeriodFrame(lo, hi) ==
    [i \in 0..(MAX_RX_BUF - 1) |->
        IF i = 0 THEN SIZEOF_TInfoPacket + 1
        ELSE IF i = 6 THEN lo
        ELSE IF i = 7 THEN hi
        ELSE 0]

\* invent_ems_feed_byte, case 6, on a checksum match: parse_packet();
parse_packet_call ==
    /\ frames < MaxFrames
    /\ SetDec(parse_packet(Dec))
    /\ frames' = frames + 1
    /\ poll' = Unread(TRUE)
    /\ UNCHANGED <<cbus, core1, shown, crc_call, can_call, wire, tx, noise, emuvars,
                   ringvars>>

InitFast ==
    /\ rxstate = WAIT_SYNC_0
    /\ \E lo \in 0..255, hi \in 0..255 : rxbuf = PeriodFrame(lo, hi)
    /\ rxptr = SIZEOF_TInfoPacket + 2
    /\ ecu_data = InitData
    /\ new_data_flag = FALSE
    /\ crc_call = NoCrcCall
    /\ wire = <<>>
    /\ eng = InitEngine
    /\ slowPacketIndex = 0
    /\ RingInit("serial")
    /\ tx = [Snapshot("none") EXCEPT !.phase = "done"]
    /\ noise = 0
    /\ frames = 0

NextFast == parse_packet_call

SpecFast == InitFast /\ [][NextFast]_vars

\* ---------------------------------------------------------------- claims, scale factors
\* the period field of the frame buffer, low byte first
Period == rxbuf[6] + (256 * rxbuf[7])

\* C29: once a frame is accepted the rotational speed is 10000000 / period
\* if the period field is above 0, and 0 if it is 0; the division is never
\* one by zero, for any of the 65536 periods; period 10000 gives 1000.
C29_PeriodToSpeed ==
    ecu_data.packet_count > 0 =>
        /\ Period > 0 => ecu_data.rpm = <<10000000, Period>>
        /\ Period = 0 => ecu_data.rpm = <<0, 1>>
        /\ ecu_data.rpm[2] # 0
        /\ Period = 10000 => ecu_data.rpm[1] = 1000 * ecu_data.rpm[2]

\* a frame of period 10000 was accepted: the rotational speed is 1000
C29_Witness ==
    /\ ecu_data.packet_count = 1
    /\ Period = 10000
    /\ ecu_data.rpm = <<10000000, 10000>>
    /\ ecu_data.connected /\ new_data_flag

\* the 16-bit sub-field at offset i of the payload of the last call, low
\* byte first, as an unsigned and as a two's complement number
Raw(i) == can_call.d[i] + (256 * can_call.d[i + 1])
Signed(i) == IF Raw(i) >= 32768 THEN Raw(i) - 65536 ELSE Raw(i)

\* C30: after a call with identifier 0x300 the record holds rpm = the
\* unsigned sub-field at offset 0, tps = the signed one at offset 2 times
\* 0.1, map = the unsigned one at offset 4 times 0.01, iat = the signed one
\* at offset 6 times 0.1; the sub-fields 2500, 50, 10000, 250 give 2500, 5,
\* 100 and 25.
C30_Frame0x300 ==
    can_call.id = 768 =>
        /\ can_call.ret
        /\ ecu_data.rpm = <<Raw(0), 1>>
        /\ ecu_data.tps = <<Signed(2), 10>>
        /\ ecu_data.map_kpa = <<Raw(4), 100>>
        /\ ecu_data.iat = <<Signed(6), 10>>
        /\ can_call.d = Scenario0x300 =>
              /\ Raw(0) = 2500 /\ Raw(2) = 50
              /\ Raw(4) = 10000 /\ Raw(6) = 250
              /\ ecu_data.rpm[1] = 2500 * ecu_data.rpm[2]
              /\ ecu_data.tps[1] = 5 * ecu_data.tps[2]
              /\ ecu_data.map_kpa[1] = 100 * ecu_data.map_kpa[2]
              /\ ecu_data.iat[1] = 25 * ecu_data.iat[2]

\* the call with the sub-fields 2500, 50, 10000, 250 was made, after one
\* with negative sub-fields
C30_Witness ==
    /\ can_call.id = 768
    /\ can_call.d = Scenario0x300
    /\ frames = 2
    /\ ecu_data.rpm = <<2500, 1>>
    /\ ecu_data.tps = <<50, 10>>
    /\ ecu_data.map_kpa = <<10000, 100>>
    /\ ecu_data.iat = <<250, 10>>
    /\ ecu_data.oil_temp = <<-1, 10>>

\* ---------------------------------------------------------------- emulator, bus frames
\* memcpy(&msg->data[o], &x, 2) of a 16-bit x on the little-endian target,
\* high byte first
put16_be(x) == <<Hi(x), Lo(x)>>

\* memcpy(&msg->data[o], &x, 2) of a 16-bit x on the little-endian target
put16(x) == <<Lo(x), Hi(x)>>

\* v / 0.1f, v / 0.01f, v / 0.001f
Tenths(v) == FMul(v, F(10, 1))
Hundredths(v) == FMul(v, F(100, 1))
Thousandths(v) == FMul(v, F(1000, 1))

\* canBuilders[i](&msg), i in 0..8: buildCAN_ME1_1 .. buildCAN_ME1_8 and
\* buildCAN_ME1_In1; ub is what a cast of a value out of range yields
CanMsg(id, a, b, c, d) ==
    [id |-> id, dlc |-> 8,
     data |-> [i \in 0..7 |-> (put16(a) \o put16(b) \o put16(c)
                                 \o put16(d))[i + 1]]]

buildCAN(g, i, ub) ==
    CASE i = 0 ->
           CanMsg(768, cast_u16(g.rpm, ub), cast_i16(Tenths(g.tpsPercent), ub),
                  cast_u16(Hundredths(g.mapKpa), ub),
                  cast_i16(Tenths(F(g.iat, 1)), ub))
      [] i = 1 ->
           CanMsg(769, g.rpmHardLimit,
                  cast_i16(Hundredths(FMul(g.lambdaVal, F(147, 10))), ub),
                  cast_i16(Hundredths(FMul(g.lambda2Val, F(147, 10))), ub),
                  cast_i16(Tenths(F(g.lambdaCorrFast, 1)), ub))
      [] i = 2 ->
           CanMsg(770, cast_i16(Tenths(g.angleDeg), ub),
                  (g.dwellTime * 10) % 65536,
                  cast_i16(Tenths(F(g.injEndAngle4, 1)), ub),
                  cast_u16(Thousandths(g.injTimeMs), ub))
      [] i = 3 ->
           CanMsg(771, cast_u16(Tenths(F(g.injDutyCycle, 1)), ub), 0, 0,
                  cast_u16(Tenths(F(g.boostDuty, 1)), ub))
      [] i = 4 ->
           CanMsg(772, cast_i16(Tenths(F(g.oilT, 1)), ub),
                  cast_i16(Tenths(FMul(g.oilPBar, F(100, 1))), ub),
                  cast_i16(Tenths(F(g.clt, 1)), ub),
                  cast_i16(Tenths(g.voltageV), ub))
      [] i = 5 ->
           CanMsg(773, g.gearNo, cast_u16(Hundredths(g.mapTargetKpa), ub),
                  cast_u16(Tenths(F(g.speed, 1)), ub), 0)
      [] i = 6 ->
           CanMsg(774, cast_i16(Tenths(F(g.knockV, 1)), ub),
                  cast_i16(Tenths(F(g.knockV, 1)), ub),
                  cast_u16(Tenths(F(g.fuelPKpa, 1)), ub),
                  cast_i16(Tenths(F(g.fuelT, 1)), ub))
      [] i = 7 ->
           CanMsg(775, cast_i16(Tenths(F(g.egt1, 1)), ub),
                  cast_i16(Tenths(F(g.egt2, 1)), ub), 0, 0)
      [] OTHER ->
           CanMsg(832, cast_u16(Tenths(F(g.speed, 1)), ub), 0, 0, 0)

CAN_MSG_COUNT == 9

\* one iteration of the emulator's main loop with the bus running:
\* simulateEngine, sendAllCAN (the nine frames go out on the bus), then
\* processSerialCommands with at most one command line
main_sendAllCAN(k, ub, cmd) ==
    /\ wire = <<>>
    /\ frames < MaxFrames
    /\ LET g == simulateEngine(eng, k)
       IN  /\ wire' = [i \in 1..CAN_MSG_COUNT |-> buildCAN(g, i - 1, ub)]
           /\ tx' = [Snapshot("can") EXCEPT !.eng = g]
           /\ eng' = parseCommand(g, cmd.name, cmd.val)
    /\ frames' = frames + 1
    /\ UNCHANGED <<cbus, core1, shown, crc_call, poll, can_call, decvars, noise,
                   slowPacketIndex, ringvars>>

\* the dashboard takes the next frame off the bus:
\* invent_ems_feed_can_frame(frame.id, frame.data, frame.dlc)
bus_feed_can_frame ==
    /\ wire # <<>>
    /\ LET r == feed_can_frame(Dec, Head(wire).id, Head(wire).data) IN
       /\ SetDec(r.st)
       /\ can_call' = [id |-> Head(wire).id, d |-> Head(wire).data,
                       ret |-> r.ret]
       /\ poll' = Unread(r.ret)
    /\ wire' = Tail(wire)
    /\ tx' = [tx EXCEPT !.phase = IF Len(wire) = 1 THEN "done" ELSE "sending"]
    /\ UNCHANGED <<cbus, core1, shown, crc_call, noise, frames, emuvars, ringvars>>

InitBus == InitCanDec

NextBus ==
    \/ \E k \in SimSamples, ub \in UbPatterns, cmd \in Commands :
          main_sendAllCAN(k, ub, cmd)
    \/ bus_feed_can_frame

SpecBus == InitBus /\ [][NextBus]_vars

\* ---------------------------------------------------------------- claims, bus round trip
\* the record members a bus frame of identifier id carries, each with the
\* engine-state value it stands for and the number of resolution steps per
\* unit
BusMap(g, id) ==
    CASE id = 768 -> {<<"rpm", g.rpm, 1>>, <<"tps", g.tpsPercent, 10>>,
                      <<"map_kpa", g.mapKpa, 100>>, <<"iat", F(g.iat, 1), 10>>}
      [] id = 770 -> {<<"ign_angle", g.angleDeg, 10>>,
                      <<"dwell_ms", F(g.dwellTime, 1), 10>>,
                      <<"inj_time_ms", g.injTimeMs, 1000>>}
      [] id = 772 -> {<<"oil_temp", F(g.oilT, 1), 10>>,
                      <<"oil_pressure", g.oilPBar, 1000>>,
                      <<"clt", F(g.clt, 1), 10>>,
                      <<"voltage", g.voltageV, 10>>}
      [] id = 773 -> {<<"speed", F(g.speed, 1), 10>>}
      [] id = 774 -> {<<"knock_v", F(g.knockV, 1), 10>>,
                      <<"fuel_pressure_kpa", F(g.fuelPKpa, 1), 10>>,
                      <<"fuel_temp", F(g.fuelT, 1), 10>>}
      [] id = 775 -> {<<"egt1", F(g.egt1, 1), 10>>,
                      <<"egt2", F(g.egt2, 1), 10>>}
      [] id = 832 -> {<<"speed", F(g.speed, 1), 10>>}
      [] OTHER -> {}

\* x is v cut to a whole number of steps, q steps making a unit: x and v
\* are less than one step apart
WithinOneStep(x, v, q) == x = <<Trunc(FMul(v, F(q, 1))), q>>

\* C31: the decoder's record after a frame the emulator built holds, for
\* every member mapped to the frame's identifier, the emulator's engine
\* value to within one step of the member's bus resolution; the gear is
\* carried whole.
C31_BusRoundTrip ==
    [][wire # <<>> /\ wire' = Tail(wire) /\ tx.kind = "can" =>
          /\ \A m \in BusMap(tx.eng, Head(wire).id) :
                WithinOneStep(ecu_data'[m[1]], m[2], m[3])
          /\ Head(wire).id = 773 => ecu_data'.gear = tx.eng.gearNo
          /\ Head(wire).id \in CanIds <=> can_call'.ret]_vars

\* the nine frames of the second iteration were decoded after the command
\* clt=-40: the record holds the coolant temperature -40,0, and the oil
\* pressure and the rotational speed of the engine state
C31_Witness ==
    /\ tx.kind = "can" /\ tx.phase = "done"
    /\ frames = 2
    /\ tx.eng.cltOverride
    /\ ecu_data.clt = <<-400, 10>>
    /\ FEq(ecu_data.rpm, <<Trunc(tx.eng.rpm), 1>>)
    /\ ecu_data.oil_pressure[1] > 0
    /\ ecu_data.speed = <<0, 10>>

\* ---------------------------------------------------------------- claims, frame determinism
\* the decoder right after invent_ems_init, with no input history
FreshDec ==
    [rxstate |-> WAIT_SYNC_0, rxbuf |-> [i \in 0..(MAX_RX_BUF - 1) |-> 0],
     rxptr |-> 0, ecu_data |-> InitData, new_data_flag |-> FALSE]

\* the members the decoder st wrote when it accepted its last frame
Updated(st) ==
    FastFields \cup (IF st.rxbuf[24] < SLOW_PACKET_COUNT
                     THEN SlowFields(st.rxbuf[24]) ELSE {})

\* C32: this decoder, whenever it is in WAIT_SYNC_0, and a decoder without
\* input history, fed the same valid frame (the one of length 4), both
\* accept it, update the same members and write the same values to them.
C32_FrameBytesOnly ==
    rxstate = WAIT_SYNC_0 =>
        LET a == feed_bytes(Dec, StreamFrame)
            b == feed_bytes(FreshDec, StreamFrame)
        IN  /\ a.ecu_data.packet_count = ecu_data.packet_count + 1
            /\ b.ecu_data.packet_count = 1
            /\ Updated(a) = Updated(b)
            /\ \A f \in Updated(a) : a.ecu_data[f] = b.ecu_data[f]

\* ---------------------------------------------------------------- the new-data signal, statement by statement
\* Either build, every store and load taking effect in program order
\* (sequentially consistent). In the bus build core 1 decodes while core 0
\* polls and presents; in the serial build the one main loop does both, so
\* there the statements of core 0 below run between two calls of
\* invent_ems_feed_byte.

\* the stores with the one of the signal made first
CanStoreSeq_signal_first(id) ==
    <<"new_data_flag", "connected">> \o
    (CASE id = 768 -> <<"rpm", "tps", "map_kpa", "iat">>
       [] id = 770 -> <<"ign_angle", "dwell_ms", "inj_time_ms">>
       [] id = 772 -> <<"oil_temp", "oil_pressure", "clt", "voltage">>
       [] id = 773 -> <<"gear", "speed">>
       [] id = 774 -> <<"knock_v", "fuel_pressure_kpa", "fuel_temp">>
       [] id = 775 -> <<"egt1", "egt2">>
       [] id = 832 -> <<"speed">>
       [] OTHER -> <<>>)

\* the stores of the case of identifier id, in the order of the source, and
\* the two stores after the switch
CanStoreSeq(id) ==
    (CASE id = 768 -> <<"rpm", "tps", "map_kpa", "iat">>
       [] id = 770 -> <<"ign_angle", "dwell_ms", "inj_time_ms">>
       [] id = 772 -> <<"oil_temp", "oil_pressure", "clt", "voltage">>
       [] id = 773 -> <<"gear", "speed">>
       [] id = 774 -> <<"knock_v", "fuel_pressure_kpa", "fuel_temp">>
       [] id = 775 -> <<"egt1", "egt2">>
       [] id = 832 -> <<"speed">>
       [] OTHER -> <<>>)
    \o <<"connected", "new_data_flag">>

\* the loads of dashboard_update_cb, in the order of the source
LoadSeq == <<"oil_pressure", "clt", "oil_temp">>

\* the first member of the sequence q that is in the set todo
RECURSIVE FirstIn(_, _)
FirstIn(q, todo) ==
    IF Head(q) \in todo THEN Head(q) ELSE FirstIn(Tail(q), todo)

\* invent_ems_feed_can_frame: the next store of the call in progress
core1_entry_store_next ==
    /\ core1.pc = "stores"
    /\ core1_entry_store(FirstIn(CanStoreSeq(core1.id), core1.todo))

\* the frames handed to the bus decoder that it has decoded to the end
Decoded == Len(delivered) - (IF core1.pc = "stores" THEN 1 ELSE 0)

\* invent_ems_has_new_data: if (new_data_flag) is taken
has_new_data_test ==
    /\ shown.pc = "idle"
    /\ new_data_flag
    /\ shown' = [shown EXCEPT !.pc = "clear"]
    /\ UNCHANGED <<cbus, core1, crc_call, poll, can_call, decvars, wire, tx, noise,
                   frames, emuvars, ringvars>>

\* the flag cleared and the result dropped: ecu_data_ready is not set
has_new_data_clear_dropped ==
    /\ shown.pc = "clear"
    /\ new_data_flag' = FALSE
    /\ ecu_data_ready' = ecu_data_ready
    /\ shown' = [shown EXCEPT !.pc = "idle"]
    /\ UNCHANGED <<cbus, core1, crc_call, poll, can_call, rxstate, rxbuf, rxptr,
                   ecu_data, wire, tx, noise, frames, emuvars, mode, uartvars,
                   canvars, isr, cons, arrived, irqs, accepted, delivered>>

\* invent_ems_has_new_data: new_data_flag = false; return true; and main:
\* ecu_data_ready = true;
has_new_data_clear ==
    /\ shown.pc = "clear"
    /\ new_data_flag' = FALSE
    /\ ecu_data_ready' = TRUE
    /\ shown' = [shown EXCEPT !.pc = "idle"]
    /\ UNCHANGED <<cbus, core1, crc_call, poll, can_call, rxstate, rxbuf, rxptr,
                   ecu_data, wire, tx, noise, frames, emuvars, mode, uartvars,
                   canvars, isr, cons, arrived, irqs, accepted, delivered>>

\* dashboard_update_cb: if (!ecu_data_ready) return; ecu_data_ready = false;
dashboard_update_cb_begin ==
    /\ shown.pc = "idle"
    /\ ecu_data_ready
    /\ ecu_data_ready' = FALSE
    /\ shown' = [shown EXCEPT !.pc = "loads", !.todo = Loads, !.got = {},
                              !.upto = Decoded]
    /\ UNCHANGED <<cbus, core1, crc_call, poll, can_call, decvars, wire, tx, noise,
                   frames, emuvars, mode, uartvars, canvars, isr, cons,
                   arrived, irqs, accepted, delivered>>

\* dashboard_update_cb: the next of its three loads
dashboard_update_cb_load_next ==
    /\ shown.pc = "loads"
    /\ dashboard_update_cb_load(FirstIn(LoadSeq, shown.todo))

\* the payloads of the bus frames
SeqPayloads == { [i \in 0..7 |-> 0], [i \in 0..7 |-> 255] }

\* the serial frames: the emulator's length, accepted and rejected
SeqFrames == {<<SIZEOF_TInfoPacket + 1, 1, TRUE>>, <<MIN_PACKET_LEN, 1, FALSE>>}

InitSeq ==
    /\ invent_ems_init
    /\ crc_call = NoCrcCall
    /\ wire = <<>>
    /\ noise = 0
    /\ frames = 0
    /\ eng = InitEngine
    /\ slowPacketIndex = 0
    /\ \E m \in {"serial", "bus"} : RingInit(m)
    /\ tx = [Snapshot("none") EXCEPT !.phase = "done"]

NextSeq ==
    \/ \E id \in ShareIds, d \in SeqPayloads : core1_entry_call(id, d)
    \/ core1_entry_store_next
    \/ \E t \in SeqFrames : mode = "serial" /\ SendFrame(t[1], t[2], t[3])
    \/ mode = "serial" /\ shown.pc = "idle" /\ invent_ems_feed_byte
    \/ has_new_data_test
    \/ has_new_data_clear
    \/ dashboard_update_cb_begin
    \/ dashboard_update_cb_load_next

SpecSeq == InitSeq /\ [][NextSeq]_vars

\* ---------------------------------------------------------------- claims, new-data signal
\* the bus frames that raised the signal: those of a known identifier,
\* decoded to the end
Raised == {i \in 1..Decoded : delivered[i].id \in CanIds}

\* member f holds what frame i gave it, or what a later frame gave it
Applied(i, f) ==
    \E j \in i..Len(delivered) :
        /\ f \in CanStores(delivered[j].id)
        /\ ecu_data[f] = FrameValue(j, f)

\* C33: the store that raises the new-data signal is the last one of a
\* frame. Bus decoder: while a call has stores to make, the store of the
\* signal is among them; and when the signal is up, so whenever
\* invent_ems_has_new_data returns true, a frame has been decoded to the
\* end, connected is set and the record holds every member that each such
\* frame wrote. Serial decoder: the call that raises the signal has counted
\* the frame, set connected and written the fast channels of its buffer.
C33_SignalAfterWrites ==
    /\ [](mode = "bus" =>
          /\ core1.pc = "stores" => "new_data_flag" \in core1.todo
          /\ (new_data_flag \/ shown.pc = "clear") =>
                /\ Raised # {}
                /\ ecu_data.connected
                /\ \A i \in Raised :
                      \A f \in CanStores(delivered[i].id) : Applied(i, f))
    /\ [][mode = "serial" /\ new_data_flag' /\ ~new_data_flag =>
            /\ ecu_data'.packet_count = ecu_data.packet_count + 1
            /\ ecu_data'.connected
            /\ \A f \in FastFields :
                  ecu_data'[f] = parse_fast(InitData, rxbuf')[f]]_vars

\* core 0 has found the signal up and is about to clear it while core 1 is
\* part-way through the second frame 0x304: the record holds the first
\* frame's coolant temperature and already the second frame's oil
\* temperature
C33_Witness ==
    /\ mode = "bus"
    /\ shown.pc = "clear"
    /\ Len(delivered) = 2
    /\ delivered[1].id = 772 /\ delivered[2].id = 772
    /\ core1.pc = "stores"
    /\ core1.todo = {"clt", "voltage", "connected", "new_data_flag"}
    /\ ecu_data.clt = FrameValue(1, "clt")
    /\ ecu_data.clt # FrameValue(2, "clt")
    /\ ecu_data.oil_temp = FrameValue(2, "oil_temp")

\* Both loops keep running: main's super-loop polls the signal and runs
\* lv_timer_handler, whose timer calls dashboard_update_cb, for ever, and
\* core1_entry's loop ends every call it begins. Nothing is assumed of the
\* arrival of frames.
SpecSeqLive ==
    /\ SpecSeq
    /\ WF_vars(has_new_data_test)
    /\ WF_vars(has_new_data_clear)
    /\ WF_vars(dashboard_update_cb_begin)
    /\ WF_vars(dashboard_update_cb_load_next)
    /\ WF_vars(core1_entry_store_next)

\* dashboard_update_cb has made its three loads, and it began them when
\* frame number i had been decoded to the end
UpdatedAfter(i) ==
    shown.pc = "idle" /\ shown.got = Loads /\ shown.upto >= i

\* C34: in the bus build, once a frame of a known identifier is decoded to
\* the end, dashboard_update_cb eventually makes its loads after that, the
\* test and the clearing of the signal on core 0 being two steps between
\* which core 1 may raise it.
C34_NoLostUpdate ==
    \A i \in 1..(MaxFrames + 1) :
        (mode = "bus" /\ i \in Raised) ~> UpdatedAfter(i)

\* the second frame raised the signal between the test and the clearing
\* that the first one caused, and the update made since began after it
C34_Witness ==
    /\ mode = "bus"
    /\ Raised = {1, 2}
    /\ UpdatedAfter(2)
    /\ ~new_data_flag /\ ~ecu_data_ready
    /\ shown.oil_temp = FrameValue(2, "oil_temp")
    /\ shown.oil_temp # FrameValue(1, "oil_temp")

\* ---------------------------------------------------------------- claims, frame buffer
\* if (len >= MAX_RX_BUF - 2) return 0; of checksum, for the buffer as it is
Oversized == (rxbuf[0] - 2) % 256 >= MAX_RX_BUF - 2

\* C35: rxptr never exceeds 49; while the payload is accumulated the next
\* write rxbuf[rxptr] and the reads rxbuf[rxptr - 2], rxbuf[rxptr - 1] made
\* when the frame completes are below MAX_RX_BUF, so the test
\* rxptr < MAX_RX_BUF never fails, and checksum never returns by its guard.
C35_BufferBounds ==
    /\ rxptr <= MAX_PACKET_LEN + 1
    /\ rxstate = ACCUMULATE_PAYLOAD =>
          /\ rxptr >= 1
          /\ rxptr <= rxbuf[0]
          /\ rxptr < MAX_RX_BUF
          /\ ~Oversized

\* the longest frame has been taken in: the count stands at 49
C35_Witness ==
    /\ rxptr = MAX_PACKET_LEN + 1
    /\ rxbuf[0] = MAX_PACKET_LEN
    /\ rxstate = WAIT_SYNC_0
    /\ ecu_data.packet_count = 1

\* ---------------------------------------------------------------- claims, effect of a bus frame
\* C36: a call of invent_ems_feed_can_frame with a recognized identifier
\* stores into the one to four members of its case, into connected and into
\* new_data_flag, and into nothing else: every other member of the record,
\* packet_count and error_count among them, and rxstate, rxbuf and rxptr of
\* the serial decoder keep their values.
C36_BusFrameEffect ==
    [][(CanCall /\ can_call'.id \in RecognizedIds) =>
          /\ Cardinality(CanStores(can_call'.id)) \in 1..4
          /\ \A f \in (DOMAIN ecu_data) \ (CanStores(can_call'.id) \cup {"connected"}) :
                ecu_data'[f] = ecu_data[f]
          /\ ecu_data'.packet_count = ecu_data.packet_count
          /\ ecu_data'.error_count = ecu_data.error_count
          /\ UNCHANGED <<rxstate, rxbuf, rxptr>>]_vars

\* two frames were decoded, 0x307 and then 0x340: the members of both cases
\* hold values, those of no other case do, and nothing was counted
C36_Witness ==
    /\ frames = 2
    /\ can_call.id = 832
    /\ can_call.ret = TRUE
    /\ FEq(ecu_data.egt2, F(-1, 10))
    /\ FEq(ecu_data.speed, F(0, 1))
    /\ IsNaN(ecu_data.rpm)
    /\ ecu_data.packet_count = 0
    /\ ecu_data.error_count = 0

\* ---------------------------------------------------------------- claims, slow index out of range
\* C37: the call of invent_ems_feed_byte that completes a frame whose
\* checksum matches and whose byte rxbuf[24] is 10 or more accepts it:
\* every fast field gets the value parse_fast gives it, connected and
\* new_data_flag are set, packet_count goes up by one, error_count stays,
\* and no field of any of the ten slow variants changes.
C37_SlowIndexOutOfRange ==
    [][(FeedStep /\ Completes /\ Matches /\ slow_id' >= SLOW_PACKET_COUNT) =>
          /\ Counted = 1
          /\ Failed = 0
          /\ ecu_data'.connected = TRUE
          /\ new_data_flag' = TRUE
          /\ \A f \in FastFields :
                ecu_data'[f] = parse_fast(ecu_data, rxbuf')[f]
          /\ \A k \in Variants :
                \A f \in SlowFields(k) : ecu_data'[f] = ecu_data[f]]_vars

\* the longest frame, whose byte 24 is 205, was accepted: the fast field
\* speed holds byte 17, and the slow fields still hold their first values
C37_Witness ==
    /\ rxstate = WAIT_SYNC_0
    /\ rxbuf[0] = MAX_PACKET_LEN
    /\ rxptr = MAX_PACKET_LEN + 1
    /\ slow_id = 205
    /\ ecu_data.packet_count = 1
    /\ ecu_data.error_count = 0
    /\ ecu_data.connected
    /\ FEq(ecu_data.speed, F(PatByte(1, 17), 1))
    /\ \A k \in Variants : \A f \in SlowFields(k) : HoldsNaN(ecu_data, f) \/ ecu_data[f] = InitData[f]

\* ---------------------------------------------------------------- claims, one drain
\* main is inside the while loop that drains uart_rx_buf, and the bytes the
\* loop has still to take: those from uart_rx_tail up to its copy of
\* uart_rx_head
Draining == mode = "serial" /\ cons.pc \in {"test", "load", "advance", "feed"}
Remaining == (cons.head - uart_rx_tail) % UART_RX_BUF_SIZE

\* C38: the drain of one pass of main's loop ends, whatever
\* uart0_irq_handler does meanwhile. The loop keeps the copy of
\* uart_rx_head it made at its start; the bytes from uart_rx_tail up to that
\* copy, 255 at most, are all queued ones; each pass takes the byte at
\* uart_rx_tail, moves uart_rx_tail by one and feeds that byte, the oldest
\* not yet fed, to the decoder; no other step moves uart_rx_tail; and the
\* loop ends exactly when uart_rx_tail has reached the copy, so that what
\* the interrupt queued after the copy stays queued.
C38_DrainTerminates ==
    /\ [](Draining =>
             /\ Remaining <= UART_RX_BUF_SIZE - 1
             /\ Remaining <= Queued)
    /\ [][Draining =>
             /\ cons'.pc # "rest" => cons'.head = cons.head
             /\ (cons.pc = "test" /\ cons' # cons) =>
                   /\ (cons'.pc = "rest") = (Remaining = 0)
                   /\ (cons'.pc = "load") = (Remaining > 0)
             /\ (cons.pc = "load" /\ cons' # cons) =>
                   cons'.item = uart_rx_buf[uart_rx_tail]
             /\ (cons.pc = "advance" /\ cons' # cons) =>
                   /\ Remaining > 0
                   /\ Remaining' = Remaining - 1
                   /\ uart_rx_tail' = uart_tail_next(uart_rx_tail)
             /\ (cons.pc # "advance" \/ cons' = cons) =>
                   uart_rx_tail' = uart_rx_tail
             /\ (cons.pc = "feed" /\ cons' # cons) =>
                   /\ delivered' = Append(delivered, cons.item)
                   /\ cons.item = StreamByte(accepted[Len(delivered')])
             /\ (cons.pc # "feed" \/ cons' = cons) =>
                   delivered' = delivered]_vars
    /\ Draining ~> (cons.pc = "rest")

\* the first drain has ended: it fed the 253 bytes queued before it began,
\* and the bytes the interrupt queued while it ran are still in the buffer
C38_Witness ==
    /\ mode = "serial"
    /\ cons.pc = "rest"
    /\ Len(delivered) = UART_RX_BUF_SIZE - 3
    /\ Len(accepted) = UART_RX_BUF_SIZE - 1
    /\ Queued = 2

\* ---------------------------------------------------------------- emulator, the bus side of the main loop
\* The can2040 library is not part of this repository. What is used of it is
\* what CarEmu.c relies on: can2040_transmit returns a negative value while
\* the transmit queue has no room ("Wait for TX queue space"), a frame
\* leaves the queue when the bus has carried it, which the library reports
\* by CAN2040_NOTIFY_TX, and after can2040_stop the instance neither sends
\* nor calls back. The queue holds TxQueue frames.
TxQueue == 4
ErrorLimit == 50
MaxTicks == 3

\* main: if (now - lastTx >= TX_INTERVAL_MS) { simulateEngine(dt);
\* buildAndSend(); ...: one more serial frame is emitted (what it holds is
\* the matter of main_loop_iteration above)
main_tx_interval ==
    /\ cbus.pc = "loop"
    /\ cbus.ticks < MaxTicks
    /\ cbus' = [cbus EXCEPT !.ticks = @ + 1, !.pc = "enter"]
    /\ UNCHANGED <<rxstate, rxbuf, rxptr, ecu_data, new_data_flag, wire, tx,
                   noise, frames, eng, slowPacketIndex, ringvars, can_call,
                   poll, crc_call, core1, shown>>

\* sendAllCAN: if (!canRunning) return; ... for (unsigned i = 0; ...
sendAllCAN_enter ==
    /\ cbus.pc = "enter"
    /\ cbus' = IF cbus.canRunning
               THEN [cbus EXCEPT !.pc = "transmit", !.i = 0]
               ELSE [cbus EXCEPT !.pc = "loop"]
    /\ UNCHANGED <<rxstate, rxbuf, rxptr, ecu_data, new_data_flag, wire, tx,
                   noise, frames, eng, slowPacketIndex, ringvars, can_call,
                   poll, crc_call, core1, shown>>


\* sendAllCAN: canBuilders[i](&msg);
\* while (can2040_transmit(&cbus, &msg) < 0) tight_loop_contents();
\* one call of can2040_transmit: with room in the queue the frame is queued
\* and the for loop goes on, or returns after the last builder; without
\* room the call is made again
sendAllCAN_wait(c) ==
    IF c.pending < TxQueue
    THEN [c EXCEPT !.pending = @ + 1,
                   !.i = IF c.i + 1 < CAN_MSG_COUNT THEN c.i + 1 ELSE 0,
                   !.pc = IF c.i + 1 < CAN_MSG_COUNT THEN "transmit"
                          ELSE "loop"]
    ELSE c

sendAllCAN_transmit ==
    /\ cbus.pc = "transmit"
    /\ cbus' = sendAllCAN_wait(cbus)
    /\ UNCHANGED <<rxstate, rxbuf, rxptr, ecu_data, new_data_flag, wire, tx,
                   noise, frames, eng, slowPacketIndex, ringvars, can_call,
                   poll, crc_call, core1, shown>>

\* can2040_cb, called from the PIO interrupt while the instance runs, with
\* CAN2040_NOTIFY_TX: the bus has carried the oldest queued frame;
\* canErrors = 0 (canTxOk, a count that is only printed, is left out)
can2040_cb_tx ==
    /\ cbus.canRunning
    /\ cbus.pending > 0
    /\ cbus' = [cbus EXCEPT !.pending = @ - 1, !.canErrors = 0]
    /\ UNCHANGED <<rxstate, rxbuf, rxptr, ecu_data, new_data_flag, wire, tx,
                   noise, frames, eng, slowPacketIndex, ringvars, can_call,
                   poll, crc_call, core1, shown>>

\* can2040_cb with CAN2040_NOTIFY_ERROR: canErrors++;
\* if (canErrors > 50) { can2040_stop(cd); canRunning = false; }
can2040_cb_error ==
    /\ cbus.canRunning
    /\ cbus' = [cbus EXCEPT
                  !.canErrors = @ + 1,
                  !.canRunning = ~(cbus.canErrors + 1 > ErrorLimit)]
    /\ UNCHANGED <<rxstate, rxbuf, rxptr, ecu_data, new_data_flag, wire, tx,
                   noise, frames, eng, slowPacketIndex, ringvars, can_call,
                   poll, crc_call, core1, shown>>

\* main: processSerialCommands(), with one of the commands "canstart"
\* (canbus_setup: can2040_setup clears the instance, canRunning = true,
\* canErrors = 0) and "canstop" (can2040_stop, canRunning = false)
processSerialCommands(cmd) ==
    /\ cbus.pc = "loop"
    /\ cbus' = IF cmd = "canstart" /\ ~cbus.canRunning
               THEN [cbus EXCEPT !.canRunning = TRUE, !.canErrors = 0,
                                 !.pending = 0]
               ELSE IF cmd = "canstop" /\ cbus.canRunning
               THEN [cbus EXCEPT !.canRunning = FALSE]
               ELSE cbus
    /\ cbus' # cbus
    /\ UNCHANGED <<rxstate, rxbuf, rxptr, ecu_data, new_data_flag, wire, tx,
                   noise, frames, eng, slowPacketIndex, ringvars, can_call,
                   poll, crc_call, core1, shown>>

InitCbus == InitCanDec

NextCbus ==
    \/ main_tx_interval
    \/ sendAllCAN_enter
    \/ sendAllCAN_transmit
    \/ can2040_cb_tx
    \/ can2040_cb_error
    \/ \E cmd \in {"canstart", "canstop"} : processSerialCommands(cmd)

\* The emulator's main loop keeps running: each of its statements is
\* executed once it is reached. Nothing is assumed of the bus: it may carry
\* no frame at all (no transceiver, no acknowledging node), and it may
\* report errors or not.
SpecCbus ==
    /\ InitCbus
    /\ [][NextCbus]_vars
    /\ WF_vars(main_tx_interval)
    /\ WF_vars(sendAllCAN_enter)
    /\ WF_vars(sendAllCAN_transmit)

\* ---------------------------------------------------------------- claims, sendAllCAN
\* sendAllCAN waits for room in a full queue after the callback has stopped
\* the bus
StoppedWhileWaiting ==
    /\ cbus.pc = "transmit"
    /\ cbus.pending = TxQueue
    /\ ~cbus.canRunning
    /\ cbus.canErrors > ErrorLimit

\* C39: every call of sendAllCAN returns, also when the callback stops the
\* bus after more than 50 errors in a row while the call waits for room in
\* the transmit queue; so the main loop comes back to emit the next serial
\* frame.
C39_SendAllCANReturns ==
    /\ (cbus.pc = "transmit") ~> (cbus.pc = "loop")
    /\ StoppedWhileWaiting ~> (cbus.pc = "loop")

\* ---------------------------------------------------------------- claims, serial build, reads of the record
\* the step of main's loop that follows the drain: invent_ems_has_new_data
\* and lv_timer_handler, in which dashboard_update_cb reads the record
ReadStep == cons.pc = "rest" /\ DrainLoopStep

\* C40: in the serial build a step of uart0_irq_handler changes neither
\* the record nor the decoder's state nor the two signals; the record
\* changes only by the statement invent_ems_feed_byte(byte) of main's loop,
\* and then by the whole call; the signals are consumed, and the record is
\* read, only by the step of that same loop that follows the drain, which
\* changes neither the record nor the decoder's state: a read lies between
\* two complete calls of invent_ems_feed_byte.
C40_SerialReadsBetweenCalls ==
    [][mode = "serial" =>
          /\ InterruptStep =>
                /\ ~DrainLoopStep
                /\ UNCHANGED <<ecu_data, new_data_flag, ecu_data_ready,
                               FramingState>>
          /\ ReadStep =>
                /\ ~InterruptStep
                /\ cons'.pc = "snapshot"
                /\ UNCHANGED <<ecu_data, FramingState>>
          /\ (ecu_data_ready' # ecu_data_ready
                \/ (new_data_flag /\ ~new_data_flag')) => ReadStep
          /\ (ecu_data' # ecu_data \/ (new_data_flag' /\ ~new_data_flag)) =>
                /\ cons.pc = "feed"
                /\ cons'.pc = "test"
                /\ Dec' = feed_byte(Dec, cons.item)]_vars

\* the first drain has fed 25 frames and the first three bytes of the next;
\* the record was then read, with the decoder in the middle of the sync
\* bytes and the interrupt in the middle of storing a byte
C40_Witness ==
    /\ mode = "serial"
    /\ cons.pc = "snapshot"
    /\ Len(delivered) = UART_RX_BUF_SIZE - 3
    /\ ecu_data.packet_count = 25
    /\ rxstate = WAIT_SYNC_3
    /\ ~new_data_flag
    /\ isr.pc = "store"

====
